---- MODULE Spec2Model ----
(***************************************************************************)
(* Model of the council four-round pipeline (src/src/council/pipeline.py)  *)
(* and its checkpoint store (src/src/council/state.py).                    *)
(*                                                                         *)
(* One run directory is modelled.  A fresh run_pipeline process creates    *)
(* it; later processes are resume_pipeline calls on the same directory.    *)
(* A process is cut at its suspension points (the awaits on run_tool /     *)
(* run_tools_parallel) and at round boundaries, so that an interruption    *)
(* or a crash can leave every checkpoint document the code can leave.      *)
(***************************************************************************)
EXTENDS Integers, Sequences, FiniteSets, TLC

\* ---------------------------------------------------------------- bounds
\* Number of processes (one fresh run plus resumes) started on the run
\* directory.
MaxLaunches == 2

\* Number of update_round / mark_finished calls made on the store after
\* init_state when the store is driven on its own.
MaxStoreOps == 2

\* ------------------------------------------------------- program constants
ROUND_NAMES == <<"0_generate", "1_claude_improve", "2_codex_critique", "3_claude_finalize">>

RoundSet == {ROUND_NAMES[i] : i \in 1..Len(ROUND_NAMES)}

Roles == {"claude", "codex"}

\* CouncilConfig.defaults(): both tools are configured.
ConfigTools == {"claude", "codex"}

\* Python None as a value of resume_from / result / finished_at.
None == "None"

\* ToolResult.exit_code is None after a timeout (runner.py sets it).
ExitNone == -999

CODEX_UNAVAILABLE == "(Codex was unavailable; no alternative analysis provided.)"
CRITIQUE_UNAVAILABLE == "(Codex critique unavailable.)"
CRITIQUE_NOT_AVAILABLE == "(Codex was not available for critique.)"

\* A file that does not exist.
Absent == "<absent>"

\* Texts an agent can print.  PathText contains an absolute path.
PathText == "see /home/u/app.py"
RedactedText == "see <REDACTED>/app.py"
Stdouts == {"", "a", PathText}

\* ------------------------------------------------------------ ToolResult
NoResult == [present |-> FALSE, exit_code |-> ExitNone, stdout |-> "", timed_out |-> FALSE]

MkResult(code, out, to) == [present |-> TRUE, exit_code |-> code, stdout |-> out, timed_out |-> to]

\* What run_tool can return: a normal exit with any stdout, a non-zero
\* exit, or a timeout (exit_code None, whatever output was drained).
ToolResults ==
    {MkResult(0, s, FALSE) : s \in Stdouts}
        \cup {MkResult(1, s, FALSE) : s \in {"", "a"}}
        \cup {MkResult(ExitNone, s, TRUE) : s \in {"", "a"}}

\* codex may in addition print the very text the pipeline uses as its
\* placeholder.
ResultsOf(round_name, tool) ==
    IF round_name = "0_generate" /\ tool = "codex"
    THEN ToolResults \cup {MkResult(0, CODEX_UNAVAILABLE, FALSE)}
    ELSE ToolResults

\* Mutant: the output is not looked at.
tool_ok_any_stdout(result) == result.present /\ result.exit_code = 0

\* Mutant: the exit code is not looked at.
tool_ok_any_exit(result) == result.present /\ result.stdout # ""

tool_ok(result) == result.present /\ result.exit_code = 0 /\ result.stdout # ""

NoStatuses == [t \in Roles |-> "absent"]

round_tool_statuses(results) ==
    [t \in Roles |->
        IF ~results[t].present THEN "absent"
        ELSE IF results[t].timed_out THEN "timed_out"
        ELSE IF results[t].exit_code = 0 THEN "ok"
        ELSE "failed"]

OnlyTool(tool, status) == [t \in Roles |-> IF t = tool THEN status ELSE "absent"]

redact_abs_paths(text) == IF text = PathText THEN RedactedText ELSE text

\* ------------------------------------------------------ checkpoint store
\* The dict that run_pipeline holds in no-save mode.
EmptyDict ==
    [status |-> "", finished_at |-> None, tools |-> {},
     rounds |-> [n \in RoundSet |-> [status |-> "", tools |-> NoStatuses]]]

\* _now_iso(): the time is the ordinal of the running process.
now_iso(launch) == ToString(launch)

\* Mutant: only the first round gets an entry, the others are to be added
\* when they start.
new_state_first_round_only(tools) ==
    [status |-> "running", finished_at |-> None, tools |-> tools,
     rounds |-> [n \in {ROUND_NAMES[1]} |-> [status |-> "pending", tools |-> NoStatuses]]]

new_state(tools) ==
    [status |-> "running", finished_at |-> None, tools |-> tools,
     rounds |-> [n \in RoundSet |-> [status |-> "pending", tools |-> NoStatuses]]]

\* Mutant: the status assignment has slipped under "if tool_statuses".
update_round_guarded(st, round_name, status, tool_statuses) ==
    IF tool_statuses # NoStatuses
    THEN [st EXCEPT !.rounds[round_name] = [status |-> status, tools |-> tool_statuses]]
    ELSE st

update_round(st, round_name, status, tool_statuses) ==
    [st EXCEPT !.rounds[round_name] =
        [status |-> status,
         tools |-> IF tool_statuses # NoStatuses THEN tool_statuses ELSE @.tools]]

\* Mutant: the end timestamp is not set.
mark_finished_status_only(st, status, launch) ==
    [st EXCEPT !.status = status]

mark_finished(st, status, launch) ==
    [st EXCEPT !.finished_at = now_iso(launch), !.status = status]

Index(name) == (CHOOSE i \in 1..Len(ROUND_NAMES) : ROUND_NAMES[i] = name) - 1

\* state["rounds"].get(name, {}).get("status"): None for a missing round.
round_status(st, name) == IF name \in DOMAIN st.rounds THEN st.rounds[name].status ELSE None

RECURSIVE FirstNot(_, _, _)
FirstNot(st, status, i) ==
    IF i > Len(ROUND_NAMES) THEN None
    ELSE IF round_status(st, ROUND_NAMES[i]) # status THEN ROUND_NAMES[i]
    ELSE FirstNot(st, status, i + 1)

\* Mutant: a round left running counts as done.
get_resume_point_running_done(st) ==
    IF \A i \in 1..Len(ROUND_NAMES) : round_status(st, ROUND_NAMES[i]) \in {"ok", "running"}
    THEN None
    ELSE ROUND_NAMES[CHOOSE i \in 1..Len(ROUND_NAMES) :
            /\ round_status(st, ROUND_NAMES[i]) \notin {"ok", "running"}
            /\ \A j \in 1..(i - 1) : round_status(st, ROUND_NAMES[j]) \in {"ok", "running"}]

\* Mutant: a skipped round counts as done.
get_resume_point_skipped_done(st) ==
    IF \A i \in 1..Len(ROUND_NAMES) : round_status(st, ROUND_NAMES[i]) \in {"ok", "skipped"}
    THEN None
    ELSE ROUND_NAMES[CHOOSE i \in 1..Len(ROUND_NAMES) :
            /\ round_status(st, ROUND_NAMES[i]) \notin {"ok", "skipped"}
            /\ \A j \in 1..(i - 1) : round_status(st, ROUND_NAMES[j]) \in {"ok", "skipped"}]

\* Mutant: compares the round status with the run status "completed".
get_resume_point_completed(st) == FirstNot(st, "completed", 1)

get_resume_point(st) == FirstNot(st, "ok", 1)

get_failed_rounds(st) == {n \in RoundSet : round_status(st, n) = "failed"}

\* Mutant: the comparison with the resume point is inverted.
should_run_inverted(round_name, resume_from, retry_failed) ==
    IF resume_from = None THEN TRUE
    ELSE LET round_idx == IF round_name \in RoundSet THEN Index(round_name) ELSE -1
             resume_idx == IF resume_from \in RoundSet THEN Index(resume_from) ELSE 0
         IN IF round_idx > resume_idx THEN round_name \in retry_failed ELSE TRUE

should_run(round_name, resume_from, retry_failed) ==
    IF resume_from = None THEN TRUE
    ELSE LET round_idx == IF round_name \in RoundSet THEN Index(round_name) ELSE -1
             resume_idx == IF resume_from \in RoundSet THEN Index(resume_from) ELSE 0
         IN IF round_idx < resume_idx THEN round_name \in retry_failed ELSE TRUE

\* ------------------------------------------------------- state.json text
\* The text json.dumps produces is a sequence of lines: an opening brace,
\* one line per key, a closing brace.  version, mode, task_preview and
\* started_at are plain strings written once by init_state and are carried
\* like "status"; they are left out of the document.
OpenBrace == [k |-> "{", r |-> "", v |-> [t |-> "brace"]]
CloseBrace == [k |-> "}", r |-> "", v |-> [t |-> "brace"]]

\* A str, or None, as a JSON value.
json_scalar(x) == IF x = None THEN [t |-> "null"] ELSE [t |-> "string", s |-> x]

\* A list of strings as a JSON array.
json_array(xs) == [t |-> "array", a |-> xs]

\* The keys of a per-round tools dict: the roles that have an entry, and
\* any other key the caller put there (chosen_candidates).
dict_keys(f) == {k \in DOMAIN f : k \in Roles => f[k] # "absent"}

\* Mutant: only the role keys of a tools dict are written.
json_object_roles_only(f) == [t |-> "object", o |-> [k \in dict_keys(f) \cap Roles |-> f[k]]]

json_object(f) == [t |-> "object", o |-> [k \in dict_keys(f) |-> f[k]]]

RECURSIVE round_lines(_, _)
round_lines(st, i) ==
    IF i > Len(ROUND_NAMES) THEN <<>>
    ELSE (IF ROUND_NAMES[i] \in DOMAIN st.rounds
          THEN <<[k |-> "rounds.status", r |-> ROUND_NAMES[i],
                  v |-> json_scalar(st.rounds[ROUND_NAMES[i]].status)],
                 [k |-> "rounds.tools", r |-> ROUND_NAMES[i],
                  v |-> json_object(st.rounds[ROUND_NAMES[i]].tools)]>>
          ELSE <<>>) \o round_lines(st, i + 1)

json_dumps(st) ==
    <<OpenBrace,
      [k |-> "tools", r |-> "", v |-> json_array(st.tools)],
      [k |-> "finished_at", r |-> "", v |-> json_scalar(st.finished_at)],
      [k |-> "status", r |-> "", v |-> json_scalar(st.status)]>>
        \o round_lines(st, 1) \o <<CloseBrace>>

\* json.loads raises JSONDecodeError on a text that is not a whole object.
json_well_formed(text) ==
    /\ Len(text) >= 2
    /\ text[1].k = "{"
    /\ text[Len(text)].k = "}"

json_line(text, k, r) == text[CHOOSE i \in 1..Len(text) : text[i].k = k /\ text[i].r = r]

json_value(v) == IF v.t = "null" THEN None ELSE v.s

\* A tools dict read back: a role without an entry is absent.
json_dict(v) == [k \in Roles \cup DOMAIN v.o |-> IF k \in DOMAIN v.o THEN v.o[k] ELSE "absent"]

json_loads(text) ==
    [status |-> json_value(json_line(text, "status", "").v),
     finished_at |-> json_value(json_line(text, "finished_at", "").v),
     tools |-> json_line(text, "tools", "").v.a,
     rounds |-> [n \in {text[i].r : i \in {j \in 1..Len(text) : text[j].k = "rounds.status"}} |->
                    [status |-> json_value(json_line(text, "rounds.status", n).v),
                     tools |-> json_dict(json_line(text, "rounds.tools", n).v)]]]

\* The two FileNotFoundError a resume can raise.
NoStateJson == "FileNotFoundError: No state.json found"
MissingTaskMd == "FileNotFoundError: Missing task.md"

\* What load_state does with the content of state.json (<<>>: no file).
NoDoc ==
    [status |-> "", finished_at |-> None, tools |-> {},
     rounds |-> [n \in {} |-> [status |-> "", tools |-> NoStatuses]]]

\* Mutant: a missing state.json is read as a new document.
load_state_or_new(text) ==
    IF text = <<>> THEN [raised |-> None, doc |-> new_state(Roles)]
    ELSE IF ~json_well_formed(text) THEN [raised |-> "JSONDecodeError", doc |-> NoDoc]
    ELSE [raised |-> None, doc |-> json_loads(text)]

load_state(text) ==
    IF text = <<>> THEN [raised |-> NoStateJson, doc |-> NoDoc]
    ELSE IF ~json_well_formed(text) THEN [raised |-> "JSONDecodeError", doc |-> NoDoc]
    ELSE [raised |-> None, doc |-> json_loads(text)]

\* ------------------------------------------------------------ variables
VARIABLES
    pc,          \* position of the current process
    launches,    \* processes started so far on this run directory
    opts,        \* RunOptions of the current process
    state,       \* the in-memory checkpoint dict of the current process
    loc,         \* locals of _run_rounds
    r0_results,  \* results of the round-0 participants gathered so far
    rounds,      \* the rounds list handed to the manifest
    disk,        \* the run directory: state.json, round outputs, final.md
    calls,       \* agent invocations of the current process, in order
    writes,      \* checkpoint writes (_write) of the current process, in order
    loaded,      \* the document load_state returned to the current process
    exit_reason, \* how the last process ended
    store        \* the checkpoint store driven on its own (StoreSpec)

vars == <<pc, launches, opts, state, loc, r0_results, rounds, disk, calls, writes, loaded, exit_reason, store>>

NoLoc ==
    [retry_flag |-> FALSE, resume_from |-> None, retry_failed |-> {}, claude_r0_out |-> "", codex_r0_out |-> "",
     codex_available |-> FALSE, claude_improved |-> "", codex_critique |-> "", result |-> None,
     completed |-> <<>>, write_raised |-> FALSE]

NoOpts == [tools |-> {}, no_save |-> FALSE, dry_run |-> FALSE, redact_paths |-> FALSE, fresh |-> TRUE]

NoRound0 == [t \in Roles |-> NoResult]

EmptyDir ==
    [state_json |-> <<>>,
     task_md |-> FALSE,
     r0_stdout |-> [t \in Roles |-> Absent],
     stdout_md |-> [n \in RoundSet \ {"0_generate"} |-> Absent],
     final_md |-> Absent]

\* The store before any directory is opened.
NoStore == [pc |-> "s_off"]

\* The values of the pipeline's variables while the store is driven on its
\* own.
PipelineIdle ==
    /\ pc = "idle"
    /\ launches = 0
    /\ opts = NoOpts
    /\ state = EmptyDict
    /\ loc = NoLoc
    /\ r0_results = NoRound0
    /\ rounds = <<>>
    /\ disk = EmptyDir
    /\ calls = <<>>
    /\ writes = <<>>
    /\ loaded = EmptyDict
    /\ exit_reason = "none"

pipeline_vars == <<pc, launches, opts, state, loc, r0_results, rounds, disk, calls, writes, loaded, exit_reason>>

Init ==
    /\ pc = "idle"
    /\ launches = 0
    /\ opts = NoOpts
    /\ state = EmptyDict
    /\ loc = NoLoc
    /\ r0_results = NoRound0
    /\ rounds = <<>>
    /\ disk = EmptyDir
    /\ calls = <<>>
    /\ writes = <<>>
    /\ loaded = EmptyDict
    /\ exit_reason = "none"
    /\ store = NoStore

has_claude == "claude" \in opts.tools /\ "claude" \in ConfigTools
has_codex == "codex" \in opts.tools /\ "codex" \in ConfigTools

\* _write run to its end: the text of the whole document replaces
\* state.json (the steps of _write are those of StoreSpec).  The directory
\* keeps a well-formed state.json as the document its text parses to.
Written(d, st) == [d EXCEPT !.state_json = <<json_loads(json_dumps(st))>>]

\* The text of state.json (<<>>: no file).
state_json_text(d) == IF d.state_json = <<>> THEN <<>> ELSE json_dumps(d.state_json[1])

\* One entry of the write log per call of init_state, update_round or
\* mark_finished.
Wrote(op, round_name, status) == [op |-> op, round |-> round_name, status |-> status]

load_round_output(d, round_name, tool_name) ==
    LET content == IF round_name = "0_generate" THEN d.r0_stdout[tool_name]
                   ELSE d.stdout_md[round_name]
    IN IF content # Absent THEN content ELSE ""


\* save_round0: one <name>_stdout.md per gathered result.
save_round0(d, results) ==
    [d EXCEPT !.r0_stdout =
        [t \in Roles |-> IF results[t].present THEN results[t].stdout ELSE @[t]]]

save_round(d, round_name, result) ==
    [d EXCEPT !.stdout_md[round_name] = result.stdout]

\* save_final (also reached through _save_single_tool_final).
save_final(d, final_md) == [d EXCEPT !.final_md = final_md]

\* cleanup_intermediates: only final/ and the manifest survive.
cleanup_intermediates(d) ==
    [d EXCEPT !.state_json = <<>>, !.task_md = FALSE,
              !.r0_stdout = [t \in Roles |-> Absent],
              !.stdout_md = [n \in RoundSet \ {"0_generate"} |-> Absent]]

Call(round_name, tool) == [round |-> round_name, tool |-> tool]

\* The participants of round 0, in request order.
R0Participants ==
    (IF has_claude THEN <<"claude">> ELSE <<>>) \o (IF has_codex THEN <<"codex">> ELSE <<>>)

R0Set == {R0Participants[i] : i \in 1..Len(R0Participants)}

\* run_tools_parallel.  returned[t] is what the invocation of t returned,
\* completed the order in which the invocations finished.
\* Mutant: the gather returns at the first completion.
gather_done_first(returned) == \E t \in R0Set : returned[t].present

\* asyncio.gather returns when every awaitable has finished.
gather_done(returned) == \A t \in R0Set : returned[t].present

\* Mutant: the results are collected as they complete.
gather_as_completed(completed, returned) ==
    [i \in 1..Len(completed) |-> returned[completed[i]]]

\* asyncio.gather lists the results in the order of its awaitables,
\* tasks.values().
gather(completed, returned) ==
    [i \in 1..Len(R0Participants) |-> returned[R0Participants[i]]]

\* zip(tasks.keys(), gathered): the items of the results dict, in order.
results_items(completed, returned) ==
    [i \in 1..Len(R0Participants) |->
        [name |-> R0Participants[i], result |-> gather(completed, returned)[i]]]

\* The keys of a dict in insertion order.
dict_names(items) == [i \in 1..Len(items) |-> items[i].name]

\* results.get(t): the result under the key t, None without such a key.
dict_get(items, t) ==
    IF \E i \in 1..Len(items) : items[i].name = t
    THEN items[CHOOSE i \in 1..Len(items) : items[i].name = t].result
    ELSE NoResult

run_tools_parallel(completed, returned) ==
    [t \in Roles |-> dict_get(results_items(completed, returned), t)]

\* The part of _run_rounds between round 0 and round 1: codex
\* availability, single-tool fallback, codex placeholder.
\* Mutant: the emptiness test bool(codex_r0_out) is missing.
codex_is_available_nonplaceholder(codex_r0_out) == codex_r0_out # CODEX_UNAVAILABLE

codex_is_available(codex_r0_out) == codex_r0_out # "" /\ codex_r0_out # CODEX_UNAVAILABLE

\* Mutant: the two roles are exchanged in the condition.
single_tool_fallback_swapped(claude_r0_out, codex_r0_out) ==
    claude_r0_out # "" /\ codex_r0_out = ""

\* Mutant: the fallback is taken whichever single role succeeded.
single_tool_fallback_either(claude_r0_out, codex_r0_out) ==
    (claude_r0_out = "") # (codex_r0_out = "")

single_tool_fallback(claude_r0_out, codex_r0_out) == claude_r0_out = "" /\ codex_r0_out # ""

codex_placeholder(claude_r0_out, codex_r0_out) ==
    IF claude_r0_out # "" /\ codex_r0_out = "" THEN CODEX_UNAVAILABLE ELSE codex_r0_out

\* -------------------------------------------------------------- actions
\* run_pipeline up to the call of _run_rounds.
RunPipeline(tools, no_save, dry_run, redact_paths) ==
    /\ pc = "idle"
    /\ launches' = launches + 1
    /\ opts' = [tools |-> tools, no_save |-> no_save, dry_run |-> dry_run,
                redact_paths |-> redact_paths, fresh |-> TRUE]
    /\ LET st0 == IF no_save THEN EmptyDict ELSE new_state(tools)
           d0 == IF no_save THEN disk ELSE Written([disk EXCEPT !.task_md = TRUE], st0)
           none == ~("claude" \in tools /\ "claude" \in ConfigTools)
                   /\ ~("codex" \in tools /\ "codex" \in ConfigTools)
           st1 == IF none /\ ~no_save THEN mark_finished(st0, "failed", launches + 1) ELSE st0
       IN /\ state' = st1
          /\ disk' = IF none /\ ~no_save THEN Written(d0, st1) ELSE d0
          /\ writes' = (IF no_save THEN <<>> ELSE <<Wrote("init_state", "", "running")>>)
                           \o (IF none /\ ~no_save THEN <<Wrote("mark_finished", "", "failed")>>
                               ELSE <<>>)
          /\ pc' = IF none THEN "done" ELSE "r0_start"
          /\ exit_reason' = IF none THEN "returned" ELSE "none"
    /\ loc' = NoLoc
    /\ r0_results' = NoRound0
    /\ rounds' = <<>>
    /\ calls' = <<>>
    /\ loaded' = EmptyDict
    /\ store' = store

\* resume_pipeline up to the call of _run_rounds.
ResumePipeline(retry_failed) ==
    /\ pc \in {"done", "dead", "error"}
    /\ launches < MaxLaunches
    /\ launches' = launches + 1
    /\ r0_results' = NoRound0
    /\ rounds' = <<>>
    /\ calls' = <<>>
    /\ writes' = <<>>
    /\ disk' = disk
    /\ store' = store
    /\ IF load_state(state_json_text(disk)).raised # None \/ ~disk.task_md
       THEN \* load_state or the task.md check raises
            /\ pc' = "error"
            /\ exit_reason' = IF load_state(state_json_text(disk)).raised # None
                               THEN load_state(state_json_text(disk)).raised
                               ELSE MissingTaskMd
            /\ opts' = NoOpts
            /\ state' = EmptyDict
            /\ loaded' = EmptyDict
            /\ loc' = NoLoc
       ELSE LET st == load_state(state_json_text(disk)).doc
                tools_list == st.tools
                none == ~("claude" \in tools_list /\ "claude" \in ConfigTools)
                        /\ ~("codex" \in tools_list /\ "codex" \in ConfigTools)
                resume_from == get_resume_point(st)
                failed_rounds == IF retry_failed THEN get_failed_rounds(st) ELSE {}
                stop == none \/ resume_from = None
            IN /\ loaded' = st
               /\ opts' = [tools |-> tools_list, no_save |-> FALSE, dry_run |-> FALSE,
                           redact_paths |-> FALSE, fresh |-> FALSE]
               /\ state' = IF stop THEN st
                           ELSE [st EXCEPT !.status = "running", !.finished_at = None]
               /\ loc' = IF stop THEN [NoLoc EXCEPT !.retry_flag = retry_failed]
                         ELSE [NoLoc EXCEPT !.retry_flag = retry_failed,
                                            !.resume_from = resume_from,
                                            !.retry_failed = failed_rounds]
               /\ pc' = IF stop THEN "done" ELSE "r0_start"
               /\ exit_reason' = IF stop THEN "returned" ELSE "none"

\* The state after round 0's outputs are known (executed or reloaded).
AfterRound0(d, l, claude_r0_out, codex_r0_out) ==
    LET fallback == single_tool_fallback(claude_r0_out, codex_r0_out)
    IN /\ disk' = IF fallback THEN save_final(d, codex_r0_out) ELSE d
       /\ loc' = [l EXCEPT !.claude_r0_out = claude_r0_out,
                           !.codex_r0_out = codex_placeholder(claude_r0_out, codex_r0_out),
                           !.codex_available = codex_is_available(codex_r0_out),
                           !.result = IF fallback THEN codex_r0_out ELSE None]
       /\ pc' = IF fallback THEN "finalize" ELSE "r1_start"

\* _run_rounds from its entry to the await of round 0.
Round0Start ==
    /\ pc = "r0_start"
    /\ UNCHANGED <<launches, opts, r0_results, rounds, loaded, exit_reason, store>>
    /\ IF opts.dry_run
       THEN /\ pc' = "finalize"
            /\ UNCHANGED <<state, loc, disk, calls, writes>>
       ELSE IF should_run("0_generate", loc.resume_from, loc.retry_failed)
       THEN /\ state' = IF opts.no_save THEN state
                        ELSE update_round(state, "0_generate", "running", NoStatuses)
            /\ disk' = IF opts.no_save THEN disk ELSE Written(disk, state')
            /\ writes' = IF opts.no_save THEN writes
                         ELSE Append(writes, Wrote("update_round", "0_generate", "running"))
            /\ calls' = calls \o [i \in 1..Len(R0Participants) |->
                                    Call("0_generate", R0Participants[i])]
            /\ pc' = "r0_wait"
            /\ loc' = loc
       ELSE /\ AfterRound0(disk, loc, load_round_output(disk, "0_generate", "claude"),
                           load_round_output(disk, "0_generate", "codex"))
            /\ UNCHANGED <<state, calls, writes>>

\* One participant of run_tools_parallel completes.
Round0ToolDone(tool, result) ==
    /\ pc = "r0_wait"
    /\ tool \in R0Set
    /\ ~r0_results[tool].present
    /\ r0_results' = [r0_results EXCEPT ![tool] = result]
    /\ loc' = [loc EXCEPT !.completed = Append(@, tool)]
    /\ UNCHANGED <<pc, launches, opts, state, rounds, disk, calls, writes, loaded, exit_reason, store>>

\* The gather returns: artifacts, round status, fallback decision.
Round0Join ==
    /\ pc = "r0_wait"
    /\ gather_done(r0_results)
    /\ UNCHANGED <<launches, opts, r0_results, calls, loaded, exit_reason, store>>
    /\ LET results == run_tools_parallel(loc.completed, r0_results)
           d1 == IF opts.no_save THEN disk ELSE save_round0(disk, results)
           claude_r0_out == IF tool_ok(results["claude"]) THEN results["claude"].stdout ELSE ""
           codex_r0_out == IF tool_ok(results["codex"]) THEN results["codex"].stdout ELSE ""
           failed == claude_r0_out = "" /\ codex_r0_out = ""
           st1 == IF opts.no_save THEN state
                  ELSE update_round(state, "0_generate", IF failed THEN "failed" ELSE "ok",
                                    round_tool_statuses(results))
           d2 == IF opts.no_save THEN d1 ELSE Written(d1, st1)
       IN /\ rounds' = Append(rounds,
                [round_name |-> "0_generate", results |-> results,
                 names |-> dict_names(results_items(loc.completed, r0_results))])
          /\ state' = st1
          /\ writes' = IF opts.no_save THEN writes
                       ELSE Append(writes, Wrote("update_round", "0_generate",
                                                 IF failed THEN "failed" ELSE "ok"))
          /\ IF failed
             THEN /\ disk' = d2
                  /\ loc' = loc
                  /\ pc' = "finalize"
             ELSE AfterRound0(d2, loc, claude_r0_out, codex_r0_out)


\* Mutant: the round is marked running in no-save mode too.
BeginRoundSaving(round_name, tool, wait_pc) ==
    /\ state' = update_round(state, round_name, "running", NoStatuses)
    /\ disk' = Written(disk, state')
    /\ writes' = Append(writes, Wrote("update_round", round_name, "running"))
    /\ calls' = Append(calls, Call(round_name, tool))
    /\ pc' = wait_pc
    /\ loc' = loc

\* Mutant: the round is not marked running before its invocation.
BeginRoundUnmarked(round_name, tool, wait_pc) ==
    /\ UNCHANGED <<state, disk, writes>>
    /\ calls' = Append(calls, Call(round_name, tool))
    /\ pc' = wait_pc
    /\ loc' = loc

\* The common shape of rounds 1, 2 and 3 up to their await: mark the round
\* running and invoke the tool.
BeginRound(round_name, tool, wait_pc) ==
    /\ state' = IF opts.no_save THEN state
                ELSE update_round(state, round_name, "running", NoStatuses)
    /\ disk' = IF opts.no_save THEN disk ELSE Written(disk, state')
    /\ writes' = IF opts.no_save THEN writes
                 ELSE Append(writes, Wrote("update_round", round_name, "running"))
    /\ calls' = Append(calls, Call(round_name, tool))
    /\ pc' = wait_pc
    /\ loc' = loc

\* Mutant: the outcome of the round is not recorded after the await.
EndRoundUnrecorded(round_name, tool, result) ==
    /\ rounds' = Append(rounds, [round_name |-> round_name,
                                 results |-> [NoRound0 EXCEPT ![tool] = result],
                                 names |-> <<tool>>])
    /\ state' = state
    /\ disk' = IF opts.no_save THEN disk ELSE save_round(disk, round_name, result)
    /\ writes' = writes

\* The common shape after the await: save the artifacts, append to rounds,
\* record ok or failed.  The caller sets loc and pc.
EndRound(round_name, tool, result) ==
    /\ rounds' = Append(rounds, [round_name |-> round_name,
                                 results |-> [NoRound0 EXCEPT ![tool] = result],
                                 names |-> <<tool>>])
    /\ state' = IF opts.no_save THEN state
                ELSE update_round(state, round_name,
                                  IF tool_ok(result) THEN "ok" ELSE "failed",
                                  OnlyTool(tool, IF tool_ok(result) THEN "ok" ELSE "failed"))
    /\ disk' = IF opts.no_save THEN disk
               ELSE Written(save_round(disk, round_name, result), state')
    /\ writes' = IF opts.no_save THEN writes
                 ELSE Append(writes, Wrote("update_round", round_name,
                                           IF tool_ok(result) THEN "ok" ELSE "failed"))

Round1Start ==
    /\ pc = "r1_start"
    /\ UNCHANGED <<launches, opts, r0_results, rounds, loaded, exit_reason, store>>
    /\ IF should_run("1_claude_improve", loc.resume_from, loc.retry_failed)
       THEN BeginRound("1_claude_improve", "claude", "r1_wait")
       ELSE /\ loc' = [loc EXCEPT !.claude_improved =
                          LET prev == load_round_output(disk, "1_claude_improve", "claude")
                          IN IF prev # "" THEN prev ELSE loc.claude_r0_out]
            /\ pc' = "r2_start"
            /\ UNCHANGED <<state, disk, calls, writes>>

Round1Done(result) ==
    /\ pc = "r1_wait"
    /\ UNCHANGED <<launches, opts, r0_results, calls, loaded, exit_reason, store>>
    /\ EndRound("1_claude_improve", "claude", result)
    /\ loc' = [loc EXCEPT !.claude_improved =
                  IF tool_ok(result) THEN result.stdout ELSE loc.claude_r0_out]
    /\ pc' = "r2_start"

Round2Start ==
    /\ pc = "r2_start"
    /\ UNCHANGED <<launches, opts, r0_results, rounds, loaded, exit_reason, store>>
    /\ IF has_codex /\ loc.codex_available /\ "codex" \in ConfigTools
       THEN IF should_run("2_codex_critique", loc.resume_from, loc.retry_failed)
            THEN BeginRound("2_codex_critique", "codex", "r2_wait")
            ELSE /\ loc' = [loc EXCEPT !.codex_critique =
                               LET prev == load_round_output(disk, "2_codex_critique", "codex")
                               IN IF prev # "" THEN prev ELSE CRITIQUE_UNAVAILABLE]
                 /\ pc' = "r3_start"
                 /\ UNCHANGED <<state, disk, calls, writes>>
       ELSE /\ loc' = [loc EXCEPT !.codex_critique = CRITIQUE_NOT_AVAILABLE]
            /\ state' = IF opts.no_save THEN state
                        ELSE update_round(state, "2_codex_critique", "skipped", NoStatuses)
            /\ disk' = IF opts.no_save THEN disk ELSE Written(disk, state')
            /\ writes' = IF opts.no_save THEN writes
                         ELSE Append(writes, Wrote("update_round", "2_codex_critique", "skipped"))
            /\ pc' = "r3_start"
            /\ calls' = calls

\* Mutant: whatever codex printed is taken as the critique.
Round2DoneKeepsStdout(result) ==
    /\ pc = "r2_wait"
    /\ UNCHANGED <<launches, opts, r0_results, calls, loaded, exit_reason, store>>
    /\ EndRound("2_codex_critique", "codex", result)
    /\ loc' = [loc EXCEPT !.codex_critique = result.stdout]
    /\ pc' = "r3_start"

Round2Done(result) ==
    /\ pc = "r2_wait"
    /\ UNCHANGED <<launches, opts, r0_results, calls, loaded, exit_reason, store>>
    /\ EndRound("2_codex_critique", "codex", result)
    /\ loc' = [loc EXCEPT !.codex_critique =
                  IF tool_ok(result) THEN result.stdout ELSE CRITIQUE_UNAVAILABLE]
    /\ pc' = "r3_start"

Round3Start ==
    /\ pc = "r3_start"
    /\ UNCHANGED <<launches, opts, r0_results, rounds, loaded, exit_reason, store>>
    /\ IF should_run("3_claude_finalize", loc.resume_from, loc.retry_failed)
       THEN BeginRound("3_claude_finalize", "claude", "r3_wait")
       ELSE /\ loc' = [loc EXCEPT !.result =
                          LET prev == load_round_output(disk, "3_claude_finalize", "claude")
                          IN IF prev # "" THEN prev ELSE loc.claude_improved]
            /\ pc' = "finalize"
            /\ UNCHANGED <<state, disk, calls, writes>>

\* Mutant: whatever claude printed in round 3 is taken as the result.
Round3DoneKeepsStdout(result) ==
    /\ pc = "r3_wait"
    /\ UNCHANGED <<launches, opts, r0_results, calls, loaded, exit_reason, store>>
    /\ EndRound("3_claude_finalize", "claude", result)
    /\ loc' = [loc EXCEPT !.result = result.stdout]
    /\ pc' = "finalize"

Round3Done(result) ==
    /\ pc = "r3_wait"
    /\ UNCHANGED <<launches, opts, r0_results, calls, loaded, exit_reason, store>>
    /\ EndRound("3_claude_finalize", "claude", result)
    /\ loc' = [loc EXCEPT !.result =
                  IF tool_ok(result) THEN result.stdout ELSE loc.claude_improved]
    /\ pc' = "finalize"

\* run_pipeline / resume_pipeline after _run_rounds has returned.
\* Mutant: a failed later round makes the run failed.
FinalizeFailedRounds ==
    /\ pc = "finalize"
    /\ UNCHANGED <<launches, opts, loc, r0_results, rounds, calls, loaded, store>>
    /\ pc' = "done"
    /\ exit_reason' = "returned"
    /\ LET status == IF loc.result = None
                        \/ \E n \in RoundSet : round_status(state, n) = "failed"
                     THEN "failed" ELSE "completed"
       IN /\ state' = IF opts.no_save THEN state ELSE mark_finished(state, status, launches)
          /\ disk' = IF opts.no_save THEN disk ELSE Written(disk, state')
          /\ writes' = IF opts.no_save THEN writes
                       ELSE Append(writes, Wrote("mark_finished", "", status))

Finalize ==
    /\ pc = "finalize"
    /\ UNCHANGED <<launches, opts, loc, r0_results, rounds, calls, loaded, store>>
    /\ pc' = "done"
    /\ exit_reason' = "returned"
    /\ IF loc.result = None
       THEN /\ state' = IF opts.no_save THEN state ELSE mark_finished(state, "failed", launches)
            /\ disk' = IF opts.no_save THEN disk ELSE Written(disk, state')
            /\ writes' = IF opts.no_save THEN writes
                         ELSE Append(writes, Wrote("mark_finished", "", "failed"))
       ELSE LET final_output == IF opts.redact_paths THEN redact_abs_paths(loc.result)
                                ELSE loc.result
                d1 == save_final(disk, final_output)
            IN /\ state' = IF opts.no_save THEN state
                           ELSE mark_finished(state, "completed", launches)
               /\ disk' = IF opts.no_save THEN cleanup_intermediates(d1)
                          ELSE Written(d1, state')
               /\ writes' = IF opts.no_save THEN writes
                            ELSE Append(writes, Wrote("mark_finished", "", "completed"))

WaitPcs == {"r0_wait", "r1_wait", "r2_wait", "r3_wait"}

LivePcs == WaitPcs \cup {"r0_start", "r1_start", "r2_start", "r3_start", "finalize"}

\* Mutant: the interrupt handler marks the run failed before exiting.
InterruptMarksFailed ==
    /\ pc \in WaitPcs
    /\ pc' = "dead"
    /\ exit_reason' = "interrupted"
    /\ state' = IF opts.no_save THEN state ELSE mark_finished(state, "failed", launches)
    /\ disk' = IF opts.no_save THEN disk ELSE Written(disk, state')
    /\ writes' = IF opts.no_save THEN writes
                 ELSE Append(writes, Wrote("mark_finished", "", "failed"))
    /\ UNCHANGED <<launches, opts, loc, r0_results, rounds, calls, loaded, store>>

\* KeyboardInterrupt while the event loop is suspended on an agent call:
\* asyncio.run unwinds and the CLI exits with 130, nothing is written.
Interrupt ==
    /\ pc \in WaitPcs
    /\ pc' = "dead"
    /\ exit_reason' = "interrupted"
    /\ UNCHANGED <<launches, opts, state, loc, r0_results, rounds, disk, calls, writes, loaded, store>>

\* The process is killed between two steps.
Crash ==
    /\ pc \in LivePcs \ WaitPcs
    /\ pc' = "dead"
    /\ exit_reason' = "crashed"
    /\ UNCHANGED <<launches, opts, state, loc, r0_results, rounds, disk, calls, writes, loaded, store>>

Next ==
    \/ \E tools \in SUBSET Roles, no_save \in BOOLEAN, dry_run \in BOOLEAN, redact_paths \in BOOLEAN :
          RunPipeline(tools, no_save, dry_run, redact_paths)
    \/ \E retry_failed \in BOOLEAN : ResumePipeline(retry_failed)
    \/ Round0Start
    \/ \E tool \in Roles : \E result \in ResultsOf("0_generate", tool) : Round0ToolDone(tool, result)
    \/ Round0Join
    \/ Round1Start
    \/ \E result \in ResultsOf("1_claude_improve", "claude") : Round1Done(result)
    \/ Round2Start
    \/ \E result \in ResultsOf("2_codex_critique", "codex") : Round2Done(result)
    \/ Round3Start
    \/ \E result \in ResultsOf("3_claude_finalize", "claude") : Round3Done(result)
    \/ Finalize
    \/ Interrupt
    \/ Crash

Spec == Init /\ [][Next]_vars

\* The steps a started process takes by itself.  Every await is on an agent
\* call that run_tool bounds by its timeout, so a process that is neither
\* interrupted nor killed keeps taking them.
ProcessStep ==
    \/ Round0Start
    \/ \E tool \in Roles : \E result \in ResultsOf("0_generate", tool) : Round0ToolDone(tool, result)
    \/ Round0Join
    \/ Round1Start
    \/ \E result \in ResultsOf("1_claude_improve", "claude") : Round1Done(result)
    \/ Round2Start
    \/ \E result \in ResultsOf("2_codex_critique", "codex") : Round2Done(result)
    \/ Round3Start
    \/ \E result \in ResultsOf("3_claude_finalize", "claude") : Round3Done(result)
    \/ Finalize

\* Runs and resumes without external interruption.
NextUninterrupted ==
    \/ \E tools \in SUBSET Roles, no_save \in BOOLEAN, dry_run \in BOOLEAN, redact_paths \in BOOLEAN :
          RunPipeline(tools, no_save, dry_run, redact_paths)
    \/ \E retry_failed \in BOOLEAN : ResumePipeline(retry_failed)
    \/ ProcessStep

FairSpec == Init /\ [][NextUninterrupted]_vars /\ WF_vars(ProcessStep)

\* ------------------------------------------- checkpoint writes that raise
\* _write has no handler around write_text and replace, and neither have
\* init_state, update_round, mark_finished nor their callers: an OSError
\* (disk full, permission denied) leaves state.json as it was and unwinds
\* run_pipeline / resume_pipeline.  Each action below is a step of the
\* process up to a checkpoint write that raises; loc.write_raised marks it.
IoError == "OSError"

\* Mutant: the caller swallows the error and returns normally.
WriteRaisesSwallowed(d, st) ==
    /\ pc' = "done"
    /\ exit_reason' = "returned"
    /\ disk' = d
    /\ state' = st
    /\ UNCHANGED <<launches, opts, r0_results, calls, writes, loaded, store>>

\* The write raises after the artifacts d were saved and the dict st was
\* changed in memory.
WriteRaises(d, st) ==
    /\ pc' = "error"
    /\ exit_reason' = IoError
    /\ disk' = d
    /\ state' = st
    /\ UNCHANGED <<launches, opts, r0_results, calls, writes, loaded, store>>

RoundToolOf(n) == IF n = "2_codex_critique" THEN "codex" ELSE "claude"

StartPc(n) ==
    IF n = "1_claude_improve" THEN "r1_start"
    ELSE IF n = "2_codex_critique" THEN "r2_start" ELSE "r3_start"

WaitPc(n) ==
    IF n = "1_claude_improve" THEN "r1_wait"
    ELSE IF n = "2_codex_critique" THEN "r2_wait" ELSE "r3_wait"

\* run_pipeline: init_state raises, or mark_finished of the no-tools exit.
RunPipelineWriteRaises(tools, dry_run, at) ==
    /\ pc = "idle"
    /\ at = "mark_finished" =>
          ~("claude" \in tools /\ "claude" \in ConfigTools)
             /\ ~("codex" \in tools /\ "codex" \in ConfigTools)
    /\ launches' = launches + 1
    /\ opts' = [tools |-> tools, no_save |-> FALSE, dry_run |-> dry_run,
                redact_paths |-> FALSE, fresh |-> TRUE]
    /\ pc' = "error"
    /\ exit_reason' = IoError
    /\ disk' = IF at = "init_state" THEN [disk EXCEPT !.task_md = TRUE]
               ELSE Written([disk EXCEPT !.task_md = TRUE], new_state(tools))
    /\ state' = IF at = "init_state" THEN EmptyDict
                ELSE mark_finished(new_state(tools), "failed", launches + 1)
    /\ writes' = IF at = "init_state" THEN <<>> ELSE <<Wrote("init_state", "", "running")>>
    /\ loc' = [NoLoc EXCEPT !.write_raised = TRUE]
    /\ r0_results' = NoRound0
    /\ rounds' = <<>>
    /\ calls' = <<>>
    /\ loaded' = EmptyDict
    /\ store' = store

\* update_round(RUNNING) of round 0 raises: no participant is launched.
Round0StartWriteRaises ==
    /\ pc = "r0_start"
    /\ ~opts.no_save /\ ~opts.dry_run
    /\ should_run("0_generate", loc.resume_from, loc.retry_failed)
    /\ WriteRaises(disk, update_round(state, "0_generate", "running", NoStatuses))
    /\ loc' = [loc EXCEPT !.write_raised = TRUE]
    /\ rounds' = rounds

\* update_round of round 0's outcome raises, after save_round0.
Round0JoinWriteRaises ==
    /\ pc = "r0_wait"
    /\ ~opts.no_save
    /\ gather_done(r0_results)
    /\ LET results == run_tools_parallel(loc.completed, r0_results)
           failed == \A t \in Roles : ~tool_ok(results[t])
       IN /\ rounds' = Append(rounds,
                [round_name |-> "0_generate", results |-> results,
                 names |-> dict_names(results_items(loc.completed, r0_results))])
          /\ WriteRaises(save_round0(disk, results),
                         update_round(state, "0_generate", IF failed THEN "failed" ELSE "ok",
                                      round_tool_statuses(results)))
    /\ loc' = [loc EXCEPT !.write_raised = TRUE]

\* update_round(RUNNING) of round 1, 2 or 3, or update_round(SKIPPED) of
\* round 2, raises: the agent is not invoked.
BeginRoundWriteRaises(round_name) ==
    /\ pc = StartPc(round_name)
    /\ ~opts.no_save
    /\ LET runs == should_run(round_name, loc.resume_from, loc.retry_failed)
           usable == has_codex /\ loc.codex_available /\ "codex" \in ConfigTools
       IN /\ IF round_name = "2_codex_critique" THEN ~usable \/ runs ELSE runs
          /\ WriteRaises(disk,
                update_round(state, round_name,
                             IF round_name = "2_codex_critique" /\ ~usable THEN "skipped"
                             ELSE "running", NoStatuses))
    /\ loc' = [loc EXCEPT !.write_raised = TRUE]
    /\ rounds' = rounds

\* update_round of the outcome of round 1, 2 or 3 raises, after save_round.
EndRoundWriteRaises(round_name, result) ==
    /\ pc = WaitPc(round_name)
    /\ ~opts.no_save
    /\ rounds' = Append(rounds, [round_name |-> round_name,
                                 results |-> [NoRound0 EXCEPT ![RoundToolOf(round_name)] = result],
                                 names |-> <<RoundToolOf(round_name)>>])
    /\ WriteRaises(save_round(disk, round_name, result),
                   update_round(state, round_name,
                                IF tool_ok(result) THEN "ok" ELSE "failed",
                                OnlyTool(RoundToolOf(round_name),
                                         IF tool_ok(result) THEN "ok" ELSE "failed")))
    /\ loc' = [loc EXCEPT !.write_raised = TRUE]

\* mark_finished raises, after save_final when there is a result.
FinalizeWriteRaises ==
    /\ pc = "finalize"
    /\ ~opts.no_save
    /\ WriteRaises(IF loc.result = None THEN disk
                   ELSE save_final(disk, IF opts.redact_paths THEN redact_abs_paths(loc.result)
                                         ELSE loc.result),
                   mark_finished(state, IF loc.result = None THEN "failed" ELSE "completed",
                                 launches))
    /\ loc' = [loc EXCEPT !.write_raised = TRUE]
    /\ rounds' = rounds

WriteRaisesStep ==
    \/ \E tools \in SUBSET Roles, dry_run \in BOOLEAN, at \in {"init_state", "mark_finished"} :
          RunPipelineWriteRaises(tools, dry_run, at)
    \/ Round0StartWriteRaises
    \/ Round0JoinWriteRaises
    \/ \E round_name \in RoundSet \ {"0_generate"} : BeginRoundWriteRaises(round_name)
    \/ \E round_name \in RoundSet \ {"0_generate"} :
          \E result \in ResultsOf(round_name, RoundToolOf(round_name)) :
             EndRoundWriteRaises(round_name, result)
    \/ FinalizeWriteRaises

\* Checkpointed runs and their resumes, with writes that may raise.
IoNext ==
    \/ \E tools \in SUBSET Roles, dry_run \in BOOLEAN : RunPipeline(tools, FALSE, dry_run, FALSE)
    \/ \E retry_failed \in BOOLEAN : ResumePipeline(retry_failed)
    \/ ProcessStep
    \/ WriteRaisesStep

IoSpec == Init /\ [][IoNext]_vars

\* ------------------------------------------- the checkpoint store alone
\* state.py driven call by call on one run directory, with _write cut at
\* its two file operations, a reader that may load at any moment, and a
\* state.json that may be damaged from outside between two calls.
RoundStatuses == {"pending", "running", "ok", "failed", "skipped"}

\* Round names a caller can pass to update_round.
StoreRoundArgs == RoundSet \cup {"4_unknown"}

\* tool_statuses a caller can pass to update_round: None, the outcome of a
\* single-candidate round, the outcomes of a multi-candidate round with its
\* chosen_candidates entry.
StoreToolStatuses ==
    {NoStatuses,
     [claude |-> "ok", codex |-> "timed_out"],
     [claude |-> "ok", codex |-> "absent", claude_2 |-> "failed",
      chosen_candidates |-> [claude |-> "claude", codex |-> "absent"]]}

state_path == "state.json"

\* Mutant: the text is written straight into state.json.
tmp_path_in_place == "state.json"

tmp_path == "state.json.tmp"

\* Path.write_text as two steps: the file is created and part of the text
\* written, then the rest.
text_head(text) == SubSeq(text, 1, Len(text) \div 2)

write_text(files, path, text) == [files EXCEPT ![path] = text]

\* Path.replace: an atomic rename onto the target.
replace(files, src, dst) ==
    IF src = dst THEN files ELSE [f \in DOMAIN files |-> IF f = dst THEN files[src]
                                                        ELSE IF f = src THEN <<>>
                                                        ELSE files[f]]

NoSeen == [raised |-> "not loaded", doc |-> NoDoc, resume_from |-> None]

StoreNew ==
    [pc |-> "s_new", files |-> [f \in {state_path, tmp_path} |-> <<>>], mem |-> NoDoc,
     prior |-> <<>>, ops |-> 0, tampered |-> FALSE, seen |-> NoSeen]

StoreInit == PipelineIdle /\ store = StoreNew

\* A call of init_state, update_round or mark_finished up to the first
\* file operation of _write: the in-memory dict is changed and the temp
\* file created.
StoreBeginWrite(new_mem, ops) ==
    store' = [store EXCEPT !.pc = "s_write", !.mem = new_mem, !.ops = ops,
                           !.prior = store.files[state_path],
                           !.files = write_text(store.files, tmp_path, text_head(json_dumps(new_mem))),
                           !.seen = NoSeen]

StoreInitState(tools) ==
    /\ store.pc = "s_new"
    /\ StoreBeginWrite(new_state(tools), 0)
    /\ UNCHANGED pipeline_vars

\* state["rounds"][round_name] raises KeyError for a name that has no entry.
StoreUpdateRound(round_name, status, tool_statuses) ==
    /\ store.pc = "s_idle"
    /\ store.ops < MaxStoreOps
    /\ IF round_name \in DOMAIN store.mem.rounds
       THEN StoreBeginWrite(update_round(store.mem, round_name, status, tool_statuses),
                            store.ops + 1)
       ELSE store' = [store EXCEPT !.pc = "s_raised", !.ops = store.ops + 1, !.seen = NoSeen]
    /\ UNCHANGED pipeline_vars

StoreMarkFinished(status) ==
    /\ store.pc = "s_idle"
    /\ store.ops < MaxStoreOps
    /\ StoreBeginWrite(mark_finished(store.mem, status, store.ops + 1), store.ops + 1)
    /\ UNCHANGED pipeline_vars

\* write_text returns: the temp file holds the whole text.
StoreFlush ==
    /\ store.pc = "s_write"
    /\ store' = [store EXCEPT !.pc = "s_flushed",
                              !.files = write_text(store.files, tmp_path, json_dumps(store.mem)),
                              !.seen = NoSeen]
    /\ UNCHANGED pipeline_vars

\* tmp_path.replace(state_path), and the call returns.
StoreReplace ==
    /\ store.pc = "s_flushed"
    /\ store' = [store EXCEPT !.pc = "s_idle",
                              !.files = replace(store.files, tmp_path, state_path),
                              !.seen = NoSeen]
    /\ UNCHANGED pipeline_vars

\* The writing process dies inside _write.
StoreCrash ==
    /\ store.pc \in {"s_write", "s_flushed"}
    /\ store' = [store EXCEPT !.pc = "s_dead", !.seen = NoSeen]
    /\ UNCHANGED pipeline_vars

\* The damage done from outside: the text cut short, or the keys of one
\* round lost.
TamperKinds == {"truncated", "0_generate", "2_codex_critique"}

StoreTamper(kind) ==
    /\ store.pc = "s_idle"
    /\ ~store.tampered
    /\ store' = [store EXCEPT
          !.pc = "s_dead", !.tampered = TRUE, !.seen = NoSeen,
          !.files = [@ EXCEPT ![state_path] =
              IF kind = "truncated" THEN text_head(@)
              ELSE SelectSeq(@, LAMBDA line : line.r # kind)]]
    /\ UNCHANGED pipeline_vars

\* load_state by a subsequent or concurrent reader, and the resume point it
\* derives from what it got.
StoreLoad ==
    /\ store.pc # "s_off"
    /\ store.seen = NoSeen
    /\ LET got == load_state(store.files[state_path])
       IN store' = [store EXCEPT !.seen =
             [raised |-> got.raised, doc |-> got.doc,
              resume_from |-> IF got.raised = None THEN get_resume_point(got.doc) ELSE None]]
    /\ UNCHANGED pipeline_vars

StoreNext ==
    \/ \E tools \in SUBSET Roles : StoreInitState(tools)
    \/ \E round_name \in StoreRoundArgs, status \in RoundStatuses, tool_statuses \in StoreToolStatuses :
          StoreUpdateRound(round_name, status, tool_statuses)
    \/ \E status \in {"completed", "failed"} : StoreMarkFinished(status)
    \/ StoreFlush
    \/ StoreReplace
    \/ StoreCrash
    \/ \E kind \in TamperKinds : StoreTamper(kind)
    \/ StoreLoad

StoreSpec == StoreInit /\ [][StoreNext]_vars

\* --------------------------------------------- get_resume_point alone
\* The function applied to a document with any status in each round; every
\* such document is produced by update_round calls.
DocWithStatuses(statuses) ==
    [new_state(Roles) EXCEPT !.rounds = [n \in RoundSet |-> [status |-> statuses[n], tools |-> NoStatuses]]]

ResumePointInit ==
    /\ PipelineIdle
    /\ \E statuses \in [RoundSet -> RoundStatuses] :
          store = [StoreNew EXCEPT !.pc = "p_input", !.mem = DocWithStatuses(statuses)]

ApplyGetResumePoint ==
    /\ store.pc = "p_input"
    /\ store' = [store EXCEPT !.pc = "p_done",
                              !.seen = [raised |-> None, doc |-> store.mem,
                                        resume_from |-> get_resume_point(store.mem)]]
    /\ UNCHANGED pipeline_vars

ResumePointNext == ApplyGetResumePoint

ResumePointSpec == ResumePointInit /\ [][ResumePointNext]_vars


\* ------------------------------------------ the rounds a resume executes
\* resume_pipeline's decision on a loaded document: the resume point, the
\* failed set its retry_failed flag selects, and _should_run of every
\* round, for a document with any status in each round.
resume_plan(st, retry_failed) ==
    LET resume_from == get_resume_point(st)
        failed_rounds == IF retry_failed THEN get_failed_rounds(st) ELSE {}
    IN [retry_flag |-> retry_failed,
        resume_from |-> resume_from,
        failed_rounds |-> failed_rounds,
        runs |-> IF resume_from = None THEN {}
                 ELSE {n \in RoundSet : should_run(n, resume_from, failed_rounds)}]

RetryInit ==
    /\ PipelineIdle
    /\ \E statuses \in [RoundSet -> RoundStatuses] :
          store = [StoreNew EXCEPT !.pc = "q_input", !.mem = DocWithStatuses(statuses)]

ApplyResumePlan(retry_failed) ==
    /\ store.pc = "q_input"
    /\ store' = [store EXCEPT !.pc = "q_done",
                              !.seen = [raised |-> None, doc |-> store.mem,
                                        resume_from |-> get_resume_point(store.mem)],
                              !.prior = <<resume_plan(store.mem, retry_failed)>>]
    /\ UNCHANGED pipeline_vars

RetryNext == \E retry_failed \in BOOLEAN : ApplyResumePlan(retry_failed)

RetrySpec == RetryInit /\ [][RetryNext]_vars

\* ------------------------------- resume of a multi-candidate run directory
\* The run directory tests/test_multi_candidate.py prepares with the
\* store's own calls: round 0 ok with two claude candidates and the
\* chosen_candidates entry, round 1 ok or still pending, the stdout files of
\* all participants.  resume_pipeline is then run on it.
Candidate2 == "claude_2"

CandidateTools(winner) ==
    [claude |-> "ok", claude_2 |-> "ok", codex |-> "ok",
     chosen_candidates |-> [claude |-> winner, codex |-> "codex"]]

CandidateCheckpoint(winner, r1_status) ==
    LET st0 == update_round(new_state(Roles), "0_generate", "ok", CandidateTools(winner))
    IN IF r1_status = "ok"
       THEN update_round(st0, "1_claude_improve", "ok", OnlyTool("claude", "ok"))
       ELSE st0

CandidateRunDir(base_text, chosen_text, winner, r1_status) ==
    [state_json |-> <<json_loads(json_dumps(CandidateCheckpoint(winner, r1_status)))>>,
     task_md |-> TRUE,
     r0_stdout |-> [claude |-> base_text, claude_2 |-> chosen_text, codex |-> "a"],
     stdout_md |-> [n \in RoundSet \ {"0_generate"} |->
                       IF n = "1_claude_improve" /\ r1_status = "ok" THEN "a" ELSE Absent],
     final_md |-> Absent]

CandidateResumeInit ==
    /\ pc = "done"
    /\ launches = 1
    /\ opts = NoOpts
    /\ state = EmptyDict
    /\ loc = NoLoc
    /\ r0_results = NoRound0
    /\ rounds = <<>>
    /\ calls = <<>>
    /\ writes = <<>>
    /\ loaded = EmptyDict
    /\ exit_reason = "returned"
    /\ store = NoStore
    /\ \E base_text \in {"a", PathText}, chosen_text \in {"a", PathText},
          winner \in {"claude", Candidate2}, r1_status \in {"ok", "pending"} :
          disk = CandidateRunDir(base_text, chosen_text, winner, r1_status)

\* Round 0 is ok in the directory, so the resume reloads it and runs on
\* from round 1 or round 2.
CandidateResumeNext ==
    \/ \E retry_failed \in BOOLEAN : ResumePipeline(retry_failed)
    \/ Round0Start
    \/ Round1Start
    \/ \E result \in ResultsOf("1_claude_improve", "claude") : Round1Done(result)
    \/ Round2Start
    \/ \E result \in ResultsOf("2_codex_critique", "codex") : Round2Done(result)
    \/ Round3Start
    \/ \E result \in ResultsOf("3_claude_finalize", "claude") : Round3Done(result)
    \/ Finalize

CandidateResumeSpec == CandidateResumeInit /\ [][CandidateResumeNext]_vars

\* ------------------------------------------------- the candidate selector
\* pick_best (tests: _pick_best_candidate) over the raw outputs of one role.
\* A text is a sequence of tokens: the word "confidence" in any case counts
\* ten characters, every other token is one character.
MaxCandidates == 3

CandidateNames == <<"claude", Candidate2, "claude_3", "claude_4">>

Keywords == {"confidence", "Confidence", "CONFIDENCE"}
Separators == {":", "=", " "}
Digits == <<"0", "1", "2", "3", "4", "5", "6", "7", "8", "9">>

IsDigit(c) == \E v \in DOMAIN Digits : Digits[v] = c
DigitValue(c) == (CHOOSE v \in DOMAIN Digits : Digits[v] = c) - 1

RECURSIVE char_count(_)
char_count(text) ==
    IF text = <<>> THEN 0
    ELSE (IF Head(text) \in Keywords THEN Len("confidence") ELSE 1) + char_count(Tail(text))

\* The position after the run of ":", "=" and whitespace that starts at i.
RECURSIVE skip_separators(_, _)
skip_separators(text, i) ==
    IF i <= Len(text) /\ text[i] \in Separators THEN skip_separators(text, i + 1) ELSE i

\* The integer of the one to three digits that start at i.
RECURSIVE read_int(_, _, _)
read_int(text, i, taken) ==
    IF taken < 3 /\ i + taken <= Len(text) /\ IsDigit(text[i + taken])
    THEN read_int(text, i, taken + 1)
    ELSE IF taken = 0 THEN 0
         ELSE IF taken = 1 THEN DigitValue(text[i])
         ELSE IF taken = 2 THEN 10 * DigitValue(text[i]) + DigitValue(text[i + 1])
         ELSE 100 * DigitValue(text[i]) + 10 * DigitValue(text[i + 1]) + DigitValue(text[i + 2])

\* The pattern matches at i: the keyword, a separator run, a digit.
match_at(text, i) ==
    /\ text[i] \in Keywords
    /\ skip_separators(text, i + 1) > i + 1
    /\ skip_separators(text, i + 1) <= Len(text)
    /\ IsDigit(text[skip_separators(text, i + 1)])

\* The score of the first match, <<>> when the text has none: a keyword
\* that no number follows is no score.
extract_confidence(text) ==
    IF \E i \in 1..Len(text) : match_at(text, i)
    THEN LET first == CHOOSE i \in 1..Len(text) :
                          match_at(text, i) /\ \A j \in 1..(i - 1) : ~match_at(text, j)
         IN <<read_int(text, skip_separators(text, first + 1), 0)>>
    ELSE <<>>

\* Candidate a, later in the input than b, takes b's place as the best:
\* only when it is strictly better, so that the first of equals stays.
outranks_or_ties(a, b) ==
    LET sa == extract_confidence(a.text)
        sb == extract_confidence(b.text)
    IN IF sa # <<>> /\ sb # <<>> THEN sa[1] >= sb[1]
       ELSE IF sa # <<>> THEN TRUE
       ELSE IF sb # <<>> THEN FALSE
       ELSE char_count(a.text) >= char_count(b.text)

outranks(a, b) ==
    LET sa == extract_confidence(a.text)
        sb == extract_confidence(b.text)
    IN IF sa # <<>> /\ sb # <<>> THEN sa[1] > sb[1]
       ELSE IF sa # <<>> THEN TRUE
       ELSE IF sb # <<>> THEN FALSE
       ELSE char_count(a.text) > char_count(b.text)

RECURSIVE best_from(_, _, _)
best_from(candidates, i, best) ==
    IF i > Len(candidates) THEN best
    ELSE best_from(candidates, i + 1,
                   IF outranks(candidates[i], candidates[best]) THEN i ELSE best)

pick_best(candidates) ==
    IF Len(candidates) = 1 THEN candidates[1]
    ELSE candidates[best_from(candidates, 2, 1)]

\* What verbose prints: every candidate's score or "none", then the choice.
pick_best_trace(candidates) ==
    [i \in 1..Len(candidates) |->
        [name |-> candidates[i].name,
         score |-> IF extract_confidence(candidates[i].text) = <<>> THEN "none"
                   ELSE extract_confidence(candidates[i].text)[1]]]
      \o <<[chosen |-> pick_best(candidates).name]>>

\* Raw outputs the selector is applied to: unscored ones of several
\* lengths, scored ones in each accepted spelling, a keyword without a
\* number, a score of zero and a text with two scores.
SampleTexts ==
    { <<"s">>,
      <<"l", "o", "n", "g", "e", "r", " ", "t", "e", "x", "t", " ", "h", "e", "r", "e">>,
      <<"o", "t", "h", "e", "r", " ", "t", "e", "x", "t", " ", "s", "a", "m", "e", "!">>,
      <<"Confidence", ":", " ", "7", "0">>,
      <<"CONFIDENCE", "=", "9", "0">>,
      <<"a", " ", "confidence", " ", "9", "0", " ", "b">>,
      <<"confidence", ":", " ", "0">>,
      <<"confidence", ":", " ", "1", "0", "0">>,
      <<"confidence", ":", " ", "h", "i", "g", "h", ",", " ", "r", "e", "a", "l", "l", "y">>,
      <<"confidence", ":", "6", "0", " ", "confidence", ":", "9", "5">> }

PickBestInit ==
    /\ PipelineIdle
    /\ \E n \in 1..MaxCandidates : \E texts \in [1..n -> SampleTexts] :
          store = [StoreNew EXCEPT !.pc = "k_input",
                      !.mem = [i \in 1..n |-> [name |-> CandidateNames[i], text |-> texts[i]]]]

ApplyPickBest(verbose) ==
    /\ store.pc = "k_input"
    /\ store' = [store EXCEPT !.pc = "k_done",
                              !.seen = [raised |-> None, doc |-> pick_best(store.mem),
                                        resume_from |-> None],
                              !.prior = IF verbose THEN pick_best_trace(store.mem) ELSE <<>>]
    /\ UNCHANGED pipeline_vars

PickBestNext == \E verbose \in BOOLEAN : ApplyPickBest(verbose)

PickBestSpec == PickBestInit /\ [][PickBestNext]_vars

\* ------------------------------------------------- vocabulary of the claims
R0 == "0_generate"
R1 == "1_claude_improve"
R2 == "2_codex_critique"
R3 == "3_claude_finalize"

\* An invocation succeeded: exit code 0 and non-empty stdout.
Succeeded(r) == r.present /\ r.exit_code = 0 /\ r.stdout # "" /\ ~r.timed_out

HasCheckpoint == disk.state_json # <<>>

Checkpoint == disk.state_json[1]

\* The current process is a resume that loaded a checkpoint.
Resumed == loaded # EmptyDict

Returned == pc = "done"

CallsOfRounds(S) == SelectSeq(calls, LAMBDA c : c.round \in S)

IsPrefix(s, t) == Len(s) <= Len(t) /\ \A i \in 1..Len(s) : s[i] = t[i]

LoadedStatuses(s0, s1, s2, s3) ==
    /\ Resumed
    /\ loaded.rounds[R0].status = s0
    /\ loaded.rounds[R1].status = s1
    /\ loaded.rounds[R2].status = s2
    /\ loaded.rounds[R3].status = s3

\* codex's persisted round-0 outcome is a success: exit code 0 recorded in
\* the checkpoint and a non-empty codex_stdout.md.
CodexSucceededInLoadedRound0 ==
    /\ loaded.rounds[R0].tools["codex"] = "ok"
    /\ disk.r0_stdout["codex"] \notin {Absent, ""}

Rounds2And3 == <<Call(R2, "codex"), Call(R3, "claude")>>

\* C1: resuming a checkpoint with rounds 0 and 1 ok, rounds 2 and 3 pending
\* and codex successful in round 0 invokes codex for round 2, then claude
\* for round 3, and nothing else (no round-0 or round-1 participant).
C1_ResumeDeterminism ==
    (LoadedStatuses("ok", "ok", "pending", "pending") /\ CodexSucceededInLoadedRound0)
        => /\ IsPrefix(calls, Rounds2And3)
           /\ Returned => calls = Rounds2And3

\* C2: resuming with retry_failed=true a checkpoint with rounds 0 and 1 ok,
\* round 2 failed and round 3 pending invokes round 2 (codex) and then
\* round 3 (claude), and never a round-0 or round-1 participant.
C2_RetryFailedPreservesSuccesses ==
    (LoadedStatuses("ok", "ok", "failed", "pending") /\ loc.retry_flag)
        => /\ IsPrefix(calls, Rounds2And3)
           /\ CallsOfRounds({R0, R1}) = <<>>
           /\ Returned => calls = Rounds2And3

C2_Witness ==
    /\ LoadedStatuses("ok", "ok", "failed", "pending")
    /\ loc.retry_flag
    /\ Returned
    /\ calls = Rounds2And3

\* C3: a resume with retry_failed=true never invokes an agent for a round
\* whose status in the loaded checkpoint was ok.
C3_RetryFailedNeverRerunsOkRounds ==
    (Resumed /\ loc.retry_flag)
        => \A i \in 1..Len(calls) : loaded.rounds[calls[i].round].status # "ok"

AllRoundsOk(doc) == \A n \in RoundSet : doc.rounds[n].status = "ok"

\* C4: resuming a checkpoint whose four rounds are all ok makes no agent
\* invocation and no checkpoint write; state.json still holds the loaded
\* document (status and finished_at included) and the process returns.
C4_NoOpResume ==
    (Resumed /\ AllRoundsOk(loaded))
        => /\ calls = <<>>
           /\ writes = <<>>
           /\ Checkpoint = loaded
           /\ Returned

C4_Witness ==
    /\ Resumed
    /\ AllRoundsOk(loaded)
    /\ loaded.status = "completed"
    /\ loaded.finished_at # None
    /\ Returned


\* Round 0 was executed by the current process and its gather has returned.
Round0Joined == Len(rounds) >= 1 /\ rounds[1].round_name = R0

LaterRounds == {R1, R2, R3}

AllRound0Failed ==
    /\ Round0Joined
    /\ \A t \in Roles : ~Succeeded(r0_results[t])

\* C5: when every round-0 participant fails, no agent of round 1, 2 or 3 is
\* invoked, the checkpoint entries of rounds 1, 2 and 3 stay pending, and
\* the returned run is finalized with overall status failed.
C5_AbortInvariant ==
    AllRound0Failed
        => /\ CallsOfRounds(LaterRounds) = <<>>
           /\ HasCheckpoint => \A n \in LaterRounds : Checkpoint.rounds[n].status = "pending"
           /\ (Returned /\ HasCheckpoint)
                 => /\ Checkpoint.status = "failed"
                    /\ Checkpoint.finished_at # None
                    /\ Checkpoint.rounds[R0].status = "failed"

C5_Witness ==
    /\ AllRound0Failed
    /\ \A t \in Roles : r0_results[t].present
    /\ Returned
    /\ HasCheckpoint
    /\ Checkpoint.status = "failed"

ClaudeFailedCodexSucceeded ==
    /\ Round0Joined
    /\ r0_results["claude"].present
    /\ ~Succeeded(r0_results["claude"])
    /\ Succeeded(r0_results["codex"])

FallbackFrame ==
    /\ CallsOfRounds(LaterRounds) = <<>>
    /\ HasCheckpoint => \A n \in LaterRounds : Checkpoint.rounds[n].status = "pending"
    /\ (Returned /\ HasCheckpoint) => Checkpoint.status = "completed"

ExactlyOneSucceeded ==
    /\ Round0Joined
    /\ \A t \in Roles : r0_results[t].present
    /\ Succeeded(r0_results["claude"]) # Succeeded(r0_results["codex"])

Winner == IF Succeeded(r0_results["claude"]) THEN "claude" ELSE "codex"

\* C7 (as claimed): whenever exactly one of the two roles succeeds in
\* round 0, that role's round-0 output is the final result and no agent of
\* round 1, 2 or 3 is invoked.
C7_FallbackForEitherRole ==
    ExactlyOneSucceeded
        => /\ CallsOfRounds(LaterRounds) = <<>>
           /\ loc.result = r0_results[Winner].stdout

\* C7 (amended): the short-circuit applies only when claude is the failing
\* role: then codex's round-0 output is the final result and no agent of
\* rounds 1-3 is invoked; when codex is the failing role the run goes on
\* and a returned run has invoked claude for round 1 and for round 3.
C7_FallbackOnlyWhenClaudeFails ==
    ExactlyOneSucceeded
        => IF Winner = "codex"
           THEN /\ CallsOfRounds(LaterRounds) = <<>>
                /\ loc.result = r0_results["codex"].stdout
           ELSE Returned => /\ CallsOfRounds({R1}) = <<Call(R1, "claude")>>
                            /\ CallsOfRounds({R3}) = <<Call(R3, "claude")>>

C7_Witness ==
    /\ ExactlyOneSucceeded
    /\ Winner = "claude"
    /\ Returned
    /\ CallsOfRounds(LaterRounds) = <<Call(R1, "claude"), Call(R3, "claude")>>

C7_WitnessFallback ==
    /\ ExactlyOneSucceeded
    /\ Winner = "codex"
    /\ Returned
    /\ loc.result = r0_results["codex"].stdout

CodexFailedClaudeSucceeded ==
    /\ Round0Joined
    /\ r0_results["codex"].present
    /\ ~Succeeded(r0_results["codex"])
    /\ Succeeded(r0_results["claude"])

Rounds1And3 == <<Call(R1, "claude"), Call(R3, "claude")>>

\* C8: when codex fails in round 0 while claude succeeds, codex is never
\* invoked for round 2, a returned run has invoked claude for round 1 and
\* then for round 3, round 2 is recorded as skipped and the run is
\* finalized as completed.
C8_DegradedContinuation ==
    CodexFailedClaudeSucceeded
        => /\ IsPrefix(CallsOfRounds(LaterRounds), Rounds1And3)
           /\ Returned
                 => /\ CallsOfRounds(LaterRounds) = Rounds1And3
                    /\ HasCheckpoint
                          => /\ Checkpoint.rounds[R2].status = "skipped"
                             /\ Checkpoint.status = "completed"

C8_Witness ==
    /\ CodexFailedClaudeSucceeded
    /\ Returned
    /\ HasCheckpoint
    /\ Checkpoint.rounds[R2].status = "skipped"
    /\ Checkpoint.status = "completed"
    /\ CallsOfRounds(LaterRounds) = Rounds1And3

FreshRun == opts.fresh /\ launches = 1

\* A fresh checkpointed run that returned without aborting.
FreshNonAborted == FreshRun /\ Returned /\ HasCheckpoint /\ loc.result # None

\* C9 (as claimed): no round ends a fresh, non-aborted run (both roles
\* requested) with status skipped or pending.
C9_NoRoundSkippedOnFreshRun ==
    (FreshNonAborted /\ opts.tools = Roles)
        => \A n \in RoundSet : Checkpoint.rounds[n].status \notin {"skipped", "pending"}

\* codex's round-0 output counts as available to the later rounds.
CodexOutputAvailable ==
    /\ Succeeded(r0_results["codex"])
    /\ r0_results["codex"].stdout # CODEX_UNAVAILABLE

CallsInRoundOrder ==
    \A i, j \in 1..Len(calls) : i < j => Index(calls[i].round) <= Index(calls[j].round)

\* C9 (amended): a fresh run invokes its rounds in order and skips none
\* for resume reasons: round 0 always runs; a non-aborted fresh run ends
\* with rounds 1-3 pending exactly under the single-tool fallback (claude
\* failed in round 0); otherwise rounds 1 and 3 were executed (ok or
\* failed) and round 2 was executed when codex's round-0 output is
\* available (non-empty, exit 0, not the placeholder text) and is recorded
\* skipped when it is not.
C9_FreshRunRounds ==
    /\ FreshRun => CallsInRoundOrder
    /\ FreshNonAborted
        => /\ Checkpoint.rounds[R0].status = "ok"
           /\ IF ~Succeeded(r0_results["claude"])
              THEN \A n \in LaterRounds : Checkpoint.rounds[n].status = "pending"
              ELSE /\ Checkpoint.rounds[R1].status \in {"ok", "failed"}
                   /\ Checkpoint.rounds[R3].status \in {"ok", "failed"}
                   /\ Checkpoint.rounds[R2].status \in
                         (IF CodexOutputAvailable THEN {"ok", "failed"} ELSE {"skipped"})

C9_Witness ==
    /\ FreshNonAborted
    /\ Succeeded(r0_results["claude"])
    /\ ~Succeeded(r0_results["codex"])
    /\ Checkpoint.rounds[R2].status = "skipped"
    /\ Checkpoint.rounds[R3].status = "ok"

AllInvocationsSucceeded ==
    \A i \in 1..Len(rounds) : \A t \in Roles :
        rounds[i].results[t].present => Succeeded(rounds[i].results[t])

FullRun ==
    <<Call(R0, "claude"), Call(R0, "codex"), Call(R1, "claude"), Call(R2, "codex"), Call(R3, "claude")>>

\* C10: a fresh checkpointed run with both roles (no path redaction) in
\* which every agent invocation succeeds with non-empty stdout invokes
\* round 0 {claude, codex}, round 1 claude, round 2 codex, round 3 claude,
\* ends with status completed and all four rounds ok, and its final output
\* is round 3's stdout.
C10_EndToEndSuccess ==
    (/\ FreshRun
     /\ Returned
     /\ opts.tools = Roles
     /\ ~opts.no_save /\ ~opts.dry_run /\ ~opts.redact_paths
     /\ AllInvocationsSucceeded)
        => /\ calls = FullRun
           /\ Checkpoint.status = "completed"
           /\ AllRoundsOk(Checkpoint)
           /\ rounds[Len(rounds)].round_name = R3
           /\ disk.final_md = rounds[Len(rounds)].results["claude"].stdout

\* ------------------------------------------------ claims on the store
StoreOn == store.pc \notin {"s_off", "p_input", "p_done"}

Loaded == StoreOn /\ store.seen # NoSeen

\* Two results of load_state are the same: the same error, or the same
\* document.
SameLoad(a, b) == a.raised = b.raised /\ (a.raised = None => a.doc = b.doc)

\* C14: whatever point of a checkpoint write (init_state, update_round,
\* mark_finished) the writer has reached or died at, a load_state made at
\* that moment gives what it gave before the write began (the whole prior
\* document; not-found before the first write) or the whole new document,
\* and never a decode error or a mix.
C14_AtomicWrite ==
    (Loaded /\ ~store.tampered)
        => /\ store.seen.raised # "JSONDecodeError"
           /\ \/ SameLoad(store.seen, load_state(store.prior))
              \/ SameLoad(store.seen, load_state(json_dumps(store.mem)))

\* The writer died after the temp file was written and before the rename; a
\* later load gives the prior document, which differs from the new one.
C14_Witness ==
    /\ Loaded
    /\ ~store.tampered
    /\ store.pc = "s_dead"
    /\ store.files[tmp_path] = json_dumps(store.mem)
    /\ store.prior # <<>>
    /\ store.seen.raised = None
    /\ store.seen.doc # store.mem
    /\ SameLoad(store.seen, load_state(store.prior))

\* C15: after any sequence of init_state, update_round and mark_finished,
\* load_state after the last write returns a document equal field for
\* field to the in-memory state, per-round tools maps and their
\* chosen_candidates entry included.
C15_CheckpointRoundTrip ==
    (Loaded /\ ~store.tampered /\ store.pc = "s_idle")
        => /\ store.seen.raised = None
           /\ store.seen.doc = store.mem

C15_Witness ==
    /\ Loaded
    /\ ~store.tampered
    /\ store.pc = "s_idle"
    /\ store.ops = 2
    /\ store.seen.doc = store.mem
    /\ store.mem.finished_at # None
    /\ "chosen_candidates" \in DOMAIN store.mem.rounds["0_generate"].tools
    /\ store.seen.doc.rounds["0_generate"].tools["chosen_candidates"]["claude"] = "claude"

\* C16: init_state returns a document with the four round names, each
\* pending, status running and finished_at null, already persisted; after
\* any update_round and mark_finished calls the in-memory document and the
\* persisted one have exactly the four round names.
C16_FourRoundsAlways ==
    /\ (StoreOn /\ store.pc = "s_idle" /\ store.ops = 0)
          => /\ DOMAIN store.mem.rounds = RoundSet
             /\ \A n \in RoundSet : store.mem.rounds[n].status = "pending"
             /\ store.mem.status = "running"
             /\ store.mem.finished_at = None
             /\ SameLoad(load_state(store.files[state_path]), [raised |-> None, doc |-> store.mem])
    /\ (StoreOn /\ store.pc # "s_new") => DOMAIN store.mem.rounds = RoundSet
    /\ (StoreOn /\ ~store.tampered /\ store.files[state_path] # <<>>)
          => DOMAIN load_state(store.files[state_path]).doc.rounds = RoundSet

\* An update_round with a fifth round name was refused after a first call.
C16_Witness ==
    /\ StoreOn
    /\ store.pc = "s_raised"
    /\ store.ops = 2
    /\ DOMAIN store.mem.rounds = RoundSet
    /\ \E n \in RoundSet : store.mem.rounds[n].status = "ok"
    /\ DOMAIN load_state(store.files[state_path]).doc.rounds = RoundSet

Earlier(n, m) == Index(n) < Index(m)

\* C17: get_resume_point returns the first round in the fixed order whose
\* status is not ok (pending, running, failed and skipped all count), and
\* None exactly when the four rounds are ok.
C17_ResumePoint ==
    store.pc = "p_done"
        => LET r == store.seen.resume_from
               st == store.mem
           IN /\ (r = None) <=> (\A n \in RoundSet : st.rounds[n].status = "ok")
              /\ r # None
                    => /\ r \in RoundSet
                       /\ st.rounds[r].status # "ok"
                       /\ \A n \in RoundSet : Earlier(n, r) => st.rounds[n].status = "ok"

C17_Witness ==
    /\ store.pc = "p_done"
    /\ store.mem.rounds["0_generate"].status = "ok"
    /\ store.mem.rounds["1_claude_improve"].status = "ok"
    /\ store.mem.rounds["2_codex_critique"].status = "skipped"
    /\ store.mem.rounds["3_claude_finalize"].status = "ok"
    /\ store.seen.resume_from = "2_codex_critique"

\* C19: load_state returns a state only for a document that is whole and
\* has the four round keys; on any other document it raises, so that no
\* resume point is derived from it.
C19_MalformedStateFailsLoudly ==
    Loaded
        => /\ store.seen.raised = None => DOMAIN store.seen.doc.rounds = RoundSet
           /\ store.seen.resume_from # None => DOMAIN store.seen.doc.rounds = RoundSet

\* ------------------------------------- claims on termination and exit
MarkFinishedCalls == SelectSeq(writes, LAMBDA w : w.op = "mark_finished")

\* The current process is a fresh checkpointed run, or a resume whose
\* loaded checkpoint has a resume point.
HasWorkToDo ==
    /\ launches >= 1
    /\ pc # "error"
    /\ \/ opts.fresh /\ ~opts.no_save
       \/ Resumed /\ get_resume_point(loaded) # None

\* C11: a process that is not interrupted and is a fresh checkpointed run,
\* or a resume with a resume point, eventually returns; it never calls
\* mark_finished twice, and when it has returned it has called it exactly
\* once, with status completed or failed (the round-0 abort included).
C11_Termination ==
    /\ [](HasWorkToDo => <>Returned)
    /\ [](HasWorkToDo => Len(MarkFinishedCalls) <= 1)
    /\ []((HasWorkToDo /\ Returned)
             => /\ Len(MarkFinishedCalls) = 1
                /\ MarkFinishedCalls[1].status \in {"completed", "failed"}
                /\ Checkpoint.status = MarkFinishedCalls[1].status)

Exited == pc \in {"done", "dead", "error"}

\* C12: once the process has exited, for whatever reason, the persisted
\* checkpoint does not show status running: it shows completed or failed.
C12_NeverRunningAfterExit ==
    (Exited /\ HasCheckpoint) => Checkpoint.status \in {"completed", "failed"}

Interrupted == pc = "dead" /\ exit_reason = "interrupted"

\* C13: an interrupt at an agent-invocation boundary ends the process: the
\* interrupting step invokes no agent and writes nothing; in the state it
\* leaves, the checkpoint is not marked completed or failed (it still shows
\* running, finished_at null, the awaited round running); nothing more is
\* invoked or written until a resume is started, and that resume loads the
\* checkpoint as it was left.
C13_InterruptionIsTerminal ==
    /\ [](( Interrupted /\ HasCheckpoint)
            => /\ Checkpoint.status = "running"
               /\ Checkpoint.finished_at = None
               /\ Checkpoint.rounds[calls[Len(calls)].round].status = "running"
               /\ MarkFinishedCalls = <<>>
               /\ load_state(state_json_text(disk)).raised = None
               /\ disk.task_md)
    /\ [][(pc \in WaitPcs /\ pc' = "dead")
            => /\ calls' = calls
               /\ writes' = writes
               /\ disk' = disk]_vars
    /\ [][Interrupted
            => /\ launches' = launches + 1
               /\ disk' = disk
               /\ calls' = <<>>
               /\ HasCheckpoint => (pc' # "error" /\ loaded' = Checkpoint)]_vars

C13_Witness ==
    /\ Interrupted
    /\ HasCheckpoint
    /\ calls[Len(calls)] = Call("2_codex_critique", "codex")
    /\ Checkpoint.rounds["2_codex_critique"].status = "running"
    /\ Checkpoint.rounds["3_claude_finalize"].status = "pending"
    /\ Checkpoint.status = "running"

\* C18: load_state on a directory without state.json raises its not-found
\* error; a resume started on such a directory ends with that error, has
\* invoked no agent and written no checkpoint, and the directory still has
\* no checkpoint.
C18_ResumeWithoutCheckpoint ==
    /\ (launches >= 2 /\ ~HasCheckpoint)
          => /\ pc = "error"
             /\ exit_reason = NoStateJson
             /\ calls = <<>>
             /\ writes = <<>>
    /\ pc = "error"
          => /\ ~HasCheckpoint
             /\ load_state(state_json_text(disk)).raised = NoStateJson
             /\ exit_reason \notin {"returned", "interrupted", "crashed", "none"}

\* A no-save run has left its final output and no checkpoint; the resume
\* started on its directory has failed.
C18_Witness ==
    /\ pc = "error"
    /\ launches = 2
    /\ exit_reason = NoStateJson
    /\ disk.final_md # Absent
    /\ ~HasCheckpoint

\* The tool of each round after round 0.
RoundTool(n) == IF n = "2_codex_critique" THEN "codex" ELSE "claude"

\* The stdout saved for a participant of a round.
SavedStdout(n, t) == IF n = "0_generate" THEN disk.r0_stdout[t] ELSE disk.stdout_md[n]

Participants(n) == IF n = "0_generate" THEN Roles ELSE {RoundTool(n)}

\* The output the pipeline carries on from a round, per participant.
EffectiveOutput(n, t) ==
    IF n = "0_generate" THEN (IF t = "claude" THEN loc.claude_r0_out ELSE loc.codex_r0_out)
    ELSE IF n = "1_claude_improve" THEN loc.claude_improved
    ELSE IF n = "2_codex_critique" THEN loc.codex_critique
    ELSE loc.result

\* C20: in every persisted checkpoint left by fresh runs and resumes, a
\* round has status ok only if a participant of it was recorded ok (exit
\* code 0) and its saved stdout is non-empty; and the process that set the
\* status got exit code 0 and non-empty stdout from a participant and
\* carried that stdout on as the round's output.
C20_OkMeansUsableOutput ==
    HasCheckpoint
        => \A n \in RoundSet :
              Checkpoint.rounds[n].status = "ok"
                 => /\ \E t \in Participants(n) :
                          /\ Checkpoint.rounds[n].tools[t] = "ok"
                          /\ SavedStdout(n, t) \notin {Absent, ""}
                    /\ \A i \in 1..Len(rounds) :
                          rounds[i].round_name = n
                             => \E t \in Participants(n) :
                                   /\ Succeeded(rounds[i].results[t])
                                   /\ EffectiveOutput(n, t) = rounds[i].results[t].stdout

\* A resume has completed rounds 2 and 3 on top of the rounds 0 and 1 of an
\* earlier process.
C20_Witness ==
    /\ LoadedStatuses("ok", "ok", "pending", "pending")
    /\ Returned
    /\ Len(rounds) = 2
    /\ AllRoundsOk(Checkpoint)

\* ----------------------------------------- claims on the round executor
\* The outcome string of an invocation as the checkpoint is to record it.
DerivedOutcome(r) ==
    IF r.timed_out THEN "timed_out" ELSE IF r.exit_code = 0 THEN "ok" ELSE "failed"

\* C21: for every round executed by the running process and every
\* participant invoked in it, the outcome persisted in the checkpoint is
\* timed_out if the invocation timed out, else ok if its exit code is 0,
\* else failed.
C21_PersistedOutcomes ==
    HasCheckpoint
        => \A i \in 1..Len(rounds) : \A t \in Roles :
              rounds[i].results[t].present
                 => Checkpoint.rounds[rounds[i].round_name].tools[t]
                       = DerivedOutcome(rounds[i].results[t])

UpdateRoundCalls(n) == SelectSeq(writes, LAMBDA w : w.op = "update_round" /\ w.round = n)

\* The running process has invoked an agent for round n.
Attempted(n) == \E i \in 1..Len(calls) : calls[i].round = n

\* The invocations of round n have completed in the running process.
Completed(n) == \E i \in 1..Len(rounds) : rounds[i].round_name = n

\* C22 (as claimed): an execution attempt of a round makes exactly one
\* update_round call for that round, and only after the round's agent
\* invocations have completed.
C22_OneUpdatePerAttempt ==
    ~opts.no_save
        => \A n \in RoundSet :
              Attempted(n)
                 => /\ Len(UpdateRoundCalls(n)) = (IF Completed(n) THEN 1 ELSE 0)
                    /\ Completed(n) => UpdateRoundCalls(n)[1].status \in {"ok", "failed"}

\* C22 (amended): an execution attempt of a round makes exactly two
\* update_round calls for that round: one that marks it running, in the
\* step that starts the invocation(s), and one that records ok or failed,
\* in the step in which the invocation(s) have completed; an attempt cut
\* during the invocation has made only the first.  A round that is not
\* attempted gets no call, or the single call that records round 2 skipped.
C22_UpdatesPerAttempt ==
    /\ [](~opts.no_save
            => \A n \in RoundSet :
                  IF Attempted(n)
                  THEN /\ Len(UpdateRoundCalls(n)) = (IF Completed(n) THEN 2 ELSE 1)
                       /\ UpdateRoundCalls(n)[1].status = "running"
                       /\ Completed(n) => UpdateRoundCalls(n)[2].status \in {"ok", "failed"}
                  ELSE \/ UpdateRoundCalls(n) = <<>>
                       \/ /\ n = "2_codex_critique"
                          /\ UpdateRoundCalls(n) = <<Wrote("update_round", n, "skipped")>>)
    /\ [][(~opts.no_save /\ Len(calls') > Len(calls))
            => /\ writes' = Append(writes, Wrote("update_round", calls'[Len(calls')].round, "running"))
               /\ rounds' = rounds]_vars
    /\ [][(~opts.no_save /\ Len(rounds') > Len(rounds))
            => /\ Len(writes') = Len(writes) + 1
               /\ writes'[Len(writes')].op = "update_round"
               /\ writes'[Len(writes')].round = rounds'[Len(rounds')].round_name
               /\ writes'[Len(writes')].status \in {"ok", "failed"}
               /\ calls' = calls]_vars

C22_Witness ==
    /\ ~opts.no_save
    /\ Returned
    /\ calls = FullRun
    /\ \A n \in RoundSet : Len(UpdateRoundCalls(n)) = 2
    /\ UpdateRoundCalls("2_codex_critique")[2].status = "failed"

\* The round before round n in the fixed order (n is not round 0).
PrevRound(n) == ROUND_NAMES[Index(n)]

Outcomes == {"ok", "failed", "skipped"}

\* C23: in a checkpointed run, the step that starts the agent invocation
\* of a round after round 0 is taken from a state whose persisted
\* checkpoint already records an outcome (ok, failed or skipped) for the
\* round before it, and that record stays while the process goes on.
C23_SequentialRounds ==
    /\ [][(~opts.no_save /\ Len(calls') > Len(calls) /\ calls'[Len(calls')].round # "0_generate")
            => /\ HasCheckpoint
               /\ Checkpoint.rounds[PrevRound(calls'[Len(calls')].round)].status \in Outcomes]_vars
    /\ [](~opts.no_save
            => \A i \in 1..Len(calls) :
                  calls[i].round # "0_generate"
                     => Checkpoint.rounds[PrevRound(calls[i].round)].status \in Outcomes)

\* Round 3's invocation is under way after a failed round 2.
C23_Witness ==
    /\ pc = "r3_wait"
    /\ HasCheckpoint
    /\ Checkpoint.rounds["2_codex_critique"].status = "failed"
    /\ Checkpoint.rounds["3_claude_finalize"].status = "running"
    /\ calls[Len(calls)] = Call("3_claude_finalize", "claude")

\* ------------------------------------------------- claims on round 0
Round0Calls == [i \in 1..Len(R0Participants) |-> Call("0_generate", R0Participants[i])]

Round0Waiting == pc = "r0_wait"

\* C24: round 0 is a full barrier join.  While the round is awaited every
\* requested participant has been launched (also when none has finished
\* yet) and the round is still recorded running; the round is decided
\* (ok or failed) only when every participant has returned; a participant
\* that returns, with a timeout or a failure too, leaves the results of
\* its siblings as they are and the siblings still awaited; and a round in
\* which some participant succeeded is recorded ok and its run, once
\* returned, has a final result and is completed.
C24_Round0Barrier ==
    /\ [](Round0Waiting
            => /\ CallsOfRounds({"0_generate"}) = Round0Calls
               /\ ~Completed("0_generate")
               /\ ~opts.no_save => Checkpoint.rounds["0_generate"].status = "running")
    /\ [](Round0Joined
            => /\ \A t \in R0Set : r0_results[t].present
               /\ ~opts.no_save => Checkpoint.rounds["0_generate"].status \in {"ok", "failed"})
    /\ [][(Round0Waiting /\ r0_results' # r0_results)
            => /\ pc' = "r0_wait"
               /\ \E t \in R0Set :
                     /\ ~r0_results[t].present
                     /\ r0_results'[t].present
                     /\ \A u \in Roles \ {t} : r0_results'[u] = r0_results[u]]_vars
    /\ []((Round0Joined /\ \E t \in Roles : Succeeded(r0_results[t]))
            => /\ ~opts.no_save => Checkpoint.rounds["0_generate"].status = "ok"
               /\ Returned
                     => /\ loc.result # None
                        /\ ~opts.no_save => Checkpoint.status = "completed")

\* claude timed out first, codex then returned successfully, and the run
\* went on to completion.
C24_Witness ==
    /\ Round0Joined
    /\ loc.completed = <<"claude", "codex">>
    /\ r0_results["claude"].timed_out
    /\ Succeeded(r0_results["codex"])
    /\ Returned
    /\ HasCheckpoint
    /\ Checkpoint.status = "completed"

\* The effective round-0 output of a role, as the results determine it.
EffectiveR0(t) == IF Succeeded(r0_results[t]) THEN r0_results[t].stdout ELSE ""

\* C25: whatever the order in which the round-0 participants finished, the
\* result map has the participants in request order, each with the result
\* its own invocation returned; the round status, the recorded participant
\* outcomes and the effective outputs are those the results determine.
C25_CompletionOrderIndependence ==
    Round0Joined
        => /\ rounds[1].names = R0Participants
           /\ \A t \in Roles : rounds[1].results[t] = r0_results[t]
           /\ ~opts.no_save
                 => /\ Checkpoint.rounds["0_generate"].status =
                          (IF \E t \in Roles : Succeeded(r0_results[t]) THEN "ok" ELSE "failed")
                    /\ \A t \in R0Set :
                          Checkpoint.rounds["0_generate"].tools[t] = DerivedOutcome(r0_results[t])
           /\ loc.claude_r0_out = EffectiveR0("claude")
           /\ loc.codex_r0_out =
                 (IF EffectiveR0("claude") # "" /\ EffectiveR0("codex") = ""
                  THEN CODEX_UNAVAILABLE ELSE EffectiveR0("codex"))

\* codex finished before claude, with a different result.
C25_Witness ==
    /\ Round0Joined
    /\ loc.completed = <<"codex", "claude">>
    /\ R0Participants = <<"claude", "codex">>
    /\ Succeeded(r0_results["claude"])
    /\ r0_results["codex"].timed_out
    /\ HasCheckpoint
    /\ Checkpoint.rounds["0_generate"].tools["codex"] = "timed_out"
    /\ loc.claude_r0_out = r0_results["claude"].stdout

\* ------------------------------------------------- claims on reloading
\* The running process is a resume that has passed round 0 without
\* executing it.
Round0Reloaded ==
    /\ Resumed
    /\ loc.resume_from \notin {None, "0_generate"}
    /\ pc \notin {"r0_start", "dead", "error"}

\* What the execution of round 0 contributed forward for a role, as the
\* run directory records it: the stdout of a participant recorded ok (exit
\* code 0) that printed something, and nothing otherwise.
OriginalR0(t) ==
    IF loaded.rounds["0_generate"].tools[t] = "ok" /\ disk.r0_stdout[t] \notin {Absent, ""}
    THEN disk.r0_stdout[t]
    ELSE ""

\* Rounds 1 and 2 passed without execution: they lie before the resume
\* point.
Round1Reloaded ==
    /\ Round0Reloaded
    /\ loc.resume_from \in {"2_codex_critique", "3_claude_finalize"}
    /\ pc \notin {"r1_start", "finalize"}

Round2Reloaded ==
    /\ Round0Reloaded
    /\ loc.resume_from = "3_claude_finalize"
    /\ pc \in {"r3_start", "r3_wait"}
    /\ loc.codex_critique # CRITIQUE_NOT_AVAILABLE

\* C26: a resume that reloads a round instead of executing it carries on
\* the effective output the original execution contributed: for round 0
\* the stdout of a role that succeeded and no output for a role that
\* failed (whatever it printed), with the placeholder for a failed codex
\* beside a successful claude; for rounds 1 and 2 the saved stdout.
C26_ReloadReconstructsOutput ==
    /\ Round0Reloaded
          => /\ loc.claude_r0_out = OriginalR0("claude")
             /\ loc.codex_r0_out =
                   (IF OriginalR0("claude") # "" /\ OriginalR0("codex") = ""
                    THEN CODEX_UNAVAILABLE ELSE OriginalR0("codex"))
    /\ Round1Reloaded => loc.claude_improved = disk.stdout_md["1_claude_improve"]
    /\ Round2Reloaded => loc.codex_critique = disk.stdout_md["2_codex_critique"]

\* The winner the loaded checkpoint names for a role.
ChosenCandidate(role) == loaded.rounds["0_generate"].tools["chosen_candidates"][role]

\* C27: when a resume reloads round 0 and the loaded checkpoint's
\* chosen_candidates names a winner for a role, the round-0 output carried
\* on for that role is the saved stdout of the named winner.
C27_ChosenCandidateReloaded ==
    (Round0Reloaded /\ "chosen_candidates" \in DOMAIN loaded.rounds["0_generate"].tools)
        => /\ loc.claude_r0_out = disk.r0_stdout[ChosenCandidate("claude")]
           /\ loc.codex_r0_out = disk.r0_stdout[ChosenCandidate("codex")]

\* ---------------------------------------------------------------- C28
Score(c) == extract_confidence(c.text)
Scored(c) == Score(c) # <<>>
PickedInput == store.mem
Picked == store.seen.doc
PickedAt(k) == k \in DOMAIN PickedInput /\ PickedInput[k] = Picked

\* C28: pick_best returns without raising one of its candidates, the one
\* candidate itself when there is only one; when some candidate has a score
\* the result has the highest score and is the first of the input with it,
\* whatever the unscored ones are; when none has a score the result is the
\* longest text and the first of the input with that length.
C28_PickBestRanking ==
    store.pc = "k_done" =>
        /\ store.seen.raised = None
        /\ Len(PickedInput) = 1 => Picked = PickedInput[1]
        /\ \E k \in DOMAIN PickedInput :
              /\ PickedAt(k)
              /\ (\E j \in DOMAIN PickedInput : Scored(PickedInput[j])) =>
                    /\ Scored(Picked)
                    /\ \A j \in DOMAIN PickedInput : Scored(PickedInput[j]) =>
                          /\ Score(PickedInput[j])[1] <= Score(Picked)[1]
                          /\ j < k => Score(PickedInput[j])[1] < Score(Picked)[1]
              /\ (\A j \in DOMAIN PickedInput : ~Scored(PickedInput[j])) =>
                    \A j \in DOMAIN PickedInput :
                          /\ char_count(PickedInput[j].text) <= char_count(Picked.text)
                          /\ j < k => char_count(PickedInput[j].text) < char_count(Picked.text)

\* An unscored longest text first, then two candidates with the same
\* score: the second of the three is picked.
C28_Witness ==
    /\ store.pc = "k_done"
    /\ Len(PickedInput) = 3
    /\ ~Scored(PickedInput[1])
    /\ char_count(PickedInput[1].text) > char_count(PickedInput[2].text)
    /\ Scored(PickedInput[2]) /\ Scored(PickedInput[3])
    /\ Score(PickedInput[2]) = Score(PickedInput[3])
    /\ PickedInput[2].text # PickedInput[3].text
    /\ Picked = PickedInput[2]

\* ---------------------------------------------------------------- C29
\* codex succeeded in round 0 of the run the process continues: by its own
\* invocation when the process executed round 0, by the recorded outcome
\* and saved output when it reloaded the round.
CodexSucceededRound0 ==
    IF Round0Reloaded
    THEN /\ "codex" \in DOMAIN loaded.rounds[R0].tools
         /\ CodexSucceededInLoadedRound0
    ELSE Succeeded(r0_results["codex"])

\* The process has decided round 2 and stands before or in round 3.
Round2Decided == pc \in {"r3_start", "r3_wait"} /\ ~opts.no_save

Round2MarkedSkipped ==
    \E i \in 1..Len(writes) : writes[i] = Wrote("update_round", R2, "skipped")

\* C29: once a checkpointed process has decided round 2, the round is
\* marked skipped exactly when codex did not succeed in round 0 or is no
\* requested and configured role; a skipped round 2 has status skipped in
\* the checkpoint and no codex invocation; on a fresh run where codex
\* succeeded in round 0, codex is invoked for round 2.
C29_Round2SkippedIffCodexFailed ==
    Round2Decided =>
        /\ Round2MarkedSkipped <=> (~has_codex \/ ~CodexSucceededRound0)
        /\ Round2MarkedSkipped =>
              /\ Checkpoint.rounds[R2].status = "skipped"
              /\ ~Attempted(R2)
        /\ (FreshRun /\ has_codex /\ CodexSucceededRound0) => Attempted(R2)

\* ---------------------------------------------------------------- C30
\* The invocations of a fresh run as the agent results alone determine
\* them, whether or not the run keeps a checkpoint: round 0 for the
\* requested participants and, unless the round aborts the run or ends it
\* with codex's output, round 1, round 2 when codex's output is usable and
\* round 3.
InvocationsFor(r0) ==
    Round0Calls \o
        (IF \/ ~Round0Joined
            \/ \A t \in Roles : ~Succeeded(r0[t])
            \/ ~Succeeded(r0["claude"])
         THEN <<>>
         ELSE <<Call(R1, "claude")>>
                \o (IF has_codex /\ Succeeded(r0["codex"]) /\ r0["codex"].stdout # CODEX_UNAVAILABLE
                    THEN <<Call(R2, "codex")>> ELSE <<>>)
                \o <<Call(R3, "claude")>>)

NoSaveRun == FreshRun /\ opts.no_save

\* C30: a no-save run makes no init_state, update_round or mark_finished
\* call and has no checkpoint document at any time, its end included; and
\* the invocations of a fresh run, with or without checkpoint, are those
\* its agent results determine.
C30_NoSaveNeverCheckpoints ==
    /\ NoSaveRun => (writes = <<>> /\ ~HasCheckpoint /\ state = EmptyDict)
    /\ (FreshRun /\ ~opts.dry_run) =>
          /\ IsPrefix(calls, InvocationsFor(r0_results))
          /\ Returned => calls = InvocationsFor(r0_results)
    /\ (FreshRun /\ opts.dry_run) => calls = <<>>

\* A no-save run returned after all four rounds, its round 1 failed.
C30_Witness ==
    /\ NoSaveRun
    /\ Returned
    /\ calls = FullRun
    /\ \E i \in 1..Len(rounds) : rounds[i].round_name = R1 /\ ~Succeeded(rounds[i].results["claude"])
    /\ writes = <<>>
    /\ ~HasCheckpoint

\* ------------------------------------------- claims on failing later rounds
\* The invocation of round n returned to the running process, and failed.
RoundFailed(n) ==
    \E i \in 1..Len(rounds) :
       rounds[i].round_name = n /\ ~Succeeded(rounds[i].results[RoundTool(n)])

\* What round 1 contributes forward: the stdout of its successful
\* invocation, claude's round-0 output when the invocation failed, and the
\* saved stdout of the round when an earlier process executed it.
Round1Effective ==
    IF Completed(R1)
    THEN LET r == rounds[CHOOSE i \in 1..Len(rounds) : rounds[i].round_name = R1].results["claude"]
         IN IF Succeeded(r) THEN r.stdout ELSE loc.claude_r0_out
    ELSE disk.stdout_md[R1]

\* C31: when codex succeeded in round 0 and its round-2 invocation failed,
\* the checkpoint has round 2 failed, round 3 starts from round 1's
\* effective output and the placeholder critique and invokes claude, and a
\* run that returns is finalized as completed.
C31_Round2FailureContinues ==
    (RoundFailed(R2) /\ CodexSucceededRound0) =>
        /\ ~opts.no_save => Checkpoint.rounds[R2].status = "failed"
        /\ pc \in {"r3_start", "r3_wait"} =>
              /\ loc.codex_critique = CRITIQUE_UNAVAILABLE
              /\ loc.claude_improved = Round1Effective
        /\ pc \in {"r3_wait", "finalize", "done"} => Attempted(R3)
        /\ Returned => loc.result # None
        /\ (Returned /\ ~opts.no_save) =>
              /\ Checkpoint.status = "completed"
              /\ writes[Len(writes)] = Wrote("mark_finished", "", "completed")

\* Round 1 failed, round 2 timed out after printing, round 3 was invoked
\* and the run returned.
C31_Witness ==
    /\ RoundFailed(R1)
    /\ \E i \in 1..Len(rounds) :
          /\ rounds[i].round_name = R2
          /\ rounds[i].results["codex"].timed_out
          /\ rounds[i].results["codex"].stdout # ""
    /\ CodexSucceededRound0
    /\ ~opts.no_save
    /\ Returned
    /\ Checkpoint.status = "completed"

\* ---------------------------------------------------------------- C32
FinalOutput == disk.final_md

WriteRaised == loc.write_raised

\* C33: when a checkpoint write raises, the process ends with the error at
\* the caller of run_pipeline / resume_pipeline; the step in which it
\* raises appends no agent invocation and no checkpoint write and leaves
\* state.json as it was; and the only step after it is the start of another
\* process.
C33_CheckpointWriteFailureIsFatal ==
    /\ [](WriteRaised => (pc = "error" /\ exit_reason = IoError))
    /\ [][(~WriteRaised /\ WriteRaised')
             => /\ pc # "idle" =>
                      /\ calls' = calls
                      /\ writes' = writes
                      /\ disk'.state_json = disk.state_json
                /\ pc = "idle" =>
                      /\ calls' = <<>>
                      /\ \/ writes' = <<>> /\ disk'.state_json = <<>>
                         \/ /\ writes' = <<Wrote("init_state", "", "running")>>
                            /\ disk'.state_json # <<>>
                            /\ disk'.state_json[1].status = "running"]_vars
    /\ [][WriteRaised => (launches' = launches + 1 /\ calls' = <<>> /\ writes' = <<>>)]_vars

\* update_round(RUNNING) raised before round 2's invocation, in a resumed
\* process.
C33_Witness ==
    /\ WriteRaised
    /\ Resumed
    /\ pc = "error"
    /\ calls = <<Call(R1, "claude")>>
    /\ Checkpoint.rounds[R1].status = "ok"
    /\ Checkpoint.rounds[R2].status = "pending"

\* ---------------------------------------------------------------- C34
Plan == store.prior[1]

ResumedCompleted == Resumed /\ loaded.status = "completed"

\* C35 (as claimed): a resume of a run that was finalized completed makes
\* no agent invocation.
C35_CompletedRunNeverInvokes ==
    ResumedCompleted => calls = <<>>

\* C35 (amended): a resume of a run that was finalized completed makes no
\* agent invocation when the four rounds are ok, and it returns at once;
\* a resume of a completed run that invokes an agent loaded a round that
\* is not ok and invokes no round before the first such round.
C35_CompletedAllOkNeverInvokes ==
    ResumedCompleted =>
        /\ AllRoundsOk(loaded) => (calls = <<>> /\ Returned)
        /\ calls # <<>> =>
              /\ ~AllRoundsOk(loaded)
              /\ \A i \in 1..Len(calls) :
                    Index(calls[i].round) >= Index(get_resume_point(loaded))

C35_Witness ==
    /\ ResumedCompleted
    /\ AllRoundsOk(loaded)
    /\ launches = 2
    /\ calls = <<>>
    /\ Returned
    /\ Checkpoint.status = "completed"

\* ---------------------------------------------------------------- C36
\* C36: in every persisted checkpoint, a failed round 0 has no participant
\* recorded ok (each is failed or timed_out, or took no part), and a failed
\* round 1, 2 or 3 has its participant recorded other than ok.
C36_FailedRoundHasNoOkParticipant ==
    HasCheckpoint =>
        /\ Checkpoint.rounds[R0].status = "failed" =>
              \A t \in Roles : Checkpoint.rounds[R0].tools[t] \in {"failed", "timed_out", "absent"}
        /\ \A n \in LaterRounds :
              Checkpoint.rounds[n].status = "failed" =>
                 Checkpoint.rounds[n].tools[RoundTool(n)] # "ok"

\* ---------------------------------------------------------------- C37
Finalized == HasCheckpoint /\ Checkpoint.status \in {"completed", "failed"}

\* C37: a checkpoint finalized by run_pipeline or resume_pipeline has
\* status completed exactly when its round 0 is ok, whatever became of
\* rounds 1, 2 and 3; and each mark_finished call of the process writes
\* completed exactly when round 0 is ok in the document it writes.
C37_CompletedIffRound0Ok ==
    /\ Finalized => (Checkpoint.status = "completed" <=> Checkpoint.rounds[R0].status = "ok")
    /\ \A i \in 1..Len(writes) :
          writes[i].op = "mark_finished" =>
             /\ i = Len(writes)
             /\ HasCheckpoint
             /\ pc \in {"done", "error"} => Checkpoint.status = writes[i].status

\* A run finalized as completed with rounds 1, 2 and 3 failed.
C37_Witness ==
    /\ Finalized
    /\ Returned
    /\ Checkpoint.status = "completed"
    /\ \A n \in LaterRounds : Checkpoint.rounds[n].status = "failed"
    /\ writes[Len(writes)] = Wrote("mark_finished", "", "completed")

\* ---------------------------------------------------------------- C38
\* The round whose invocation was in flight when the process was
\* interrupted: the round of its last invocation.
InterruptedRound == calls[Len(calls)].round

\* The invocations of round n that a process with the loaded tools makes.
CallsOfRound(n) ==
    IF n = R0 THEN Round0Calls ELSE <<Call(n, RoundTool(n))>>

Invoked(c) == \E i \in 1..Len(calls) : calls[i] = c

\* C38: a checkpointed process interrupted during the invocation of round
\* k leaves round k running in state.json, and the interrupt writes
\* nothing, so that every other round keeps its status; a resume that loads
\* a document with round k running has a resume point at or before k, and
\* when it returns it has invoked the agents of round k again.
C38_InterruptedRoundRunsAgain ==
    /\ []((Interrupted /\ ~opts.no_save)
             => /\ HasCheckpoint
                /\ Checkpoint.rounds[InterruptedRound].status = "running"
                /\ Checkpoint.status = "running")
    /\ [][(pc \in WaitPcs /\ pc' = "dead") => (disk' = disk /\ writes' = writes)]_vars
    /\ [](\A k \in RoundSet :
             (Resumed /\ loaded.rounds[k].status = "running")
                => /\ loc.resume_from # None
                   /\ Index(loc.resume_from) <= Index(k)
                   /\ Returned =>
                         \A i \in 1..Len(CallsOfRound(k)) : Invoked(CallsOfRound(k)[i]))

\* Round 2 was interrupted in flight; the resume started at round 1, which
\* had failed, and returned after invoking codex for round 2 again.
C38_Witness ==
    /\ Resumed
    /\ loaded.rounds[R1].status = "failed"
    /\ loaded.rounds[R2].status = "running"
    /\ loc.resume_from = R1
    /\ Returned
    /\ Invoked(Call(R2, "codex"))

\* ---------------------------------------------------------------- C39
\* C39: in every persisted checkpoint that init_state, update_round,
\* mark_finished and resume_pipeline leave, finished_at is set exactly
\* when the status is completed or failed, and the status is one of
\* running, completed and failed.
C39_FinishedAtIffFinal ==
    HasCheckpoint =>
        /\ Checkpoint.status \in {"running", "completed", "failed"}
        /\ Checkpoint.finished_at # None <=> Checkpoint.status \in {"completed", "failed"}

\* A resume of a finished run has written the document back as running,
\* without finished_at.
C39_Witness ==
    /\ Resumed
    /\ loaded.status = "completed"
    /\ loaded.finished_at # None
    /\ HasCheckpoint
    /\ Checkpoint.status = "running"
    /\ Checkpoint.finished_at = None
    /\ pc = "r3_wait"

====
